---- MODULE Spec2Model ----
(***************************************************************************)
(* A model of clidecode, a client of the BIRD control socket.              *)
(*                                                                         *)
(*  - querySocket (src/socket.go): one exchange over one connection:       *)
(*    dial, greeting, command, line-by-line framing of the response.       *)
(*  - the response decoders of BirdClient (src/unnamed/part_002), which    *)
(*    parse the text querySocket returns.                                  *)
(*                                                                         *)
(* Text is modelled by TLA+ strings, one character per byte; the string    *)
(* helpers below are the functions of Go's strings package the code uses.  *)
(***************************************************************************)
EXTENDS Integers, Sequences, FiniteSets, TLC

\* ------------------------------------------------------------------ bounds

\* Response lines the daemon sends after the greeting, at most.
MaxLines == 2
\* Callers that use the client at the same time (SpecConc).
NumCallers == 2
\* Calls of querySocket in one behaviour of SpecConc.
MaxCalls == 2
\* Lines of a "show route count" output, at most.
MaxTotalLines == 3
\* Lines of a "show protocols" output, at most.
MaxPeerLines == 3
\* Lines of a "show route primary table ..." output, at most.
MaxRouteLines == 2
\* Lines of the output of a lookup's query, at most.
MaxLookupLines == 2
\* Tokens of the AS path of a route, at most.
MaxPathTokens == 3
\* Response lines of a reply whose text is put together (SpecFrame), at most.
MaxFrameLines == 3

\* -------------------------------------------------- Go's strings package

\* The character of s at index i (from 1); the empty string beyond its end.
Ch(s, i) == IF i \in 1..Len(s) THEN SubSeq(s, i, i) ELSE ""

Digits == {"0", "1", "2", "3", "4", "5", "6", "7", "8", "9"}

IsDigit(c) == c \in Digits

\* unicode.IsSpace on the ASCII range
IsSpace(c) == c \in {" ", "\t", "\n", "\r", "\f"}

HasPrefix(s, p) == Len(s) >= Len(p) /\ SubSeq(s, 1, Len(p)) = p

Contains(s, sub) ==
    \E i \in 1..(Len(s) - Len(sub) + 1) : SubSeq(s, i, i + Len(sub) - 1) = sub

RECURSIVE TrimLeftSpace(_)
TrimLeftSpace(s) ==
    IF Len(s) > 0 /\ IsSpace(Ch(s, 1)) THEN TrimLeftSpace(Tail(s)) ELSE s

RECURSIVE TrimRightSpace(_)
TrimRightSpace(s) ==
    IF Len(s) > 0 /\ IsSpace(Ch(s, Len(s)))
    THEN TrimRightSpace(SubSeq(s, 1, Len(s) - 1))
    ELSE s

TrimSpace(s) == TrimRightSpace(TrimLeftSpace(s))

\* strings.TrimRight(s, "\n")
RECURSIVE TrimRightNewline(_)
TrimRightNewline(s) ==
    IF Len(s) > 0 /\ Ch(s, Len(s)) = "\n"
    THEN TrimRightNewline(SubSeq(s, 1, Len(s) - 1))
    ELSE s

\* The index of the first occurrence of character c in s at or after i, 0 if none.
RECURSIVE IndexFrom(_, _, _)
IndexFrom(s, c, i) ==
    IF i > Len(s) THEN 0
    ELSE IF Ch(s, i) = c THEN i
    ELSE IndexFrom(s, c, i + 1)

\* strings.Split(s, "\n"): always at least one element.
RECURSIVE SplitLines(_)
SplitLines(s) ==
    LET k == IndexFrom(s, "\n", 1)
    IN  IF k = 0 THEN <<s>>
        ELSE <<SubSeq(s, 1, k - 1)>> \o SplitLines(SubSeq(s, k + 1, Len(s)))

\* The index of the first character at or after i that is (skip = TRUE) not a
\* space, or (skip = FALSE) a space; Len(s) + 1 if none.
RECURSIVE ScanSpace(_, _, _)
ScanSpace(s, i, skip) ==
    IF i > Len(s) THEN i
    ELSE IF IsSpace(Ch(s, i)) = skip THEN ScanSpace(s, i + 1, skip)
    ELSE i

\* strings.Fields(s): the maximal runs of non-space characters, in order.
RECURSIVE Fields(_)
Fields(s) ==
    LET a == ScanSpace(s, 1, TRUE)
        b == ScanSpace(s, a, FALSE)
    IN  IF a > Len(s) THEN <<>>
        ELSE <<SubSeq(s, a, b - 1)>> \o Fields(SubSeq(s, b, Len(s)))

\* The index of the first non-digit character of s at or after i.
RECURSIVE SkipDigits(_, _)
SkipDigits(s, i) ==
    IF i <= Len(s) /\ IsDigit(Ch(s, i)) THEN SkipDigits(s, i + 1) ELSE i

\* lines joined by "\n", as the daemon's text reaches a decoder
RECURSIVE JoinLines(_)
JoinLines(ls) ==
    IF Len(ls) = 0 THEN ""
    ELSE IF Len(ls) = 1 THEN ls[1]
    ELSE ls[1] \o "\n" \o JoinLines(Tail(ls))

Range(f) == {f[i] : i \in DOMAIN f}

\* All sequences over S of length at most n.
RECURSIVE SeqsUpTo(_, _)
SeqsUpTo(S, n) ==
    IF n = 0 THEN {<<>>}
    ELSE LET shorter == SeqsUpTo(S, n - 1)
         IN  shorter \cup {Append(q, x) : q \in {r \in shorter : Len(r) = n - 1}, x \in S}

\* ------------------------------------------------------------ the daemon

\* First lines a daemon (or whatever listens on the path) may send.
GreetingSet == {"0001 BIRD 2.0.8 ready.", "0002 busy", "BIRD"}

\* Response lines, one of every shape querySocket tells apart.
LineSet ==
    { "0000 ok",        \* terminal, separator and text
      "0000 ",          \* terminal as BIRD ends a reply: separator, no text
      "0001 hi",        \* the greeting's code, after the greeting
      "8001 no",        \* runtime error
      "9001 bad",       \* parse error
      "1007-ab",        \* coded data line
      "1007",           \* code alone
      " cd",            \* continuation line
      " 0000",          \* continuation line that holds a code
      " 8001",          \* continuation line that holds an error code
      "8.8.8.0/24",     \* uncoded: digit first, but not four digits
      "ef",             \* short line
      "" }              \* empty line

Streams == {<<g>> \o r : g \in GreetingSet, r \in SeqsUpTo(LineSet, MaxLines)}

\* What the daemon sends in SpecConc: one script per outcome of an exchange.
ConcStreams ==
    { <<"0001 BIRD 2.0.8 ready.", "1007-ab", "0000 ">>,
      <<"0001 BIRD 2.0.8 ready.", "8001 no">>,
      <<"0001 BIRD 2.0.8 ready.">>,
      <<"BIRD">> }

Commands == {"show status", "show route count"}

Callers == 1..NumCallers

VARIABLES
    pc,       \* pc[c]: where caller c is in querySocket
    callno,   \* callno[c]: the number of c's call, 0 before its first
    cmd,      \* cmd[c]: the command of c's call
    conn,     \* conn[c]: the connection c's call dialled, 0 if none
    output,   \* output[c]: the strings.Builder of c's call
    ret,      \* ret[c]: what c's call returned: [text, err]
    conns,    \* every connection dialled so far: [state, call, stream, rd, wr]
    ncalls,   \* calls of querySocket started so far
    dec       \* the decoder call made: [op, outs, res, err]

sock == <<pc, callno, cmd, conn, output, ret, conns, ncalls>>

vars == <<sock, dec>>

NoRet == [text |-> "", err |-> ""]

Init ==
    /\ pc = [c \in Callers |-> "idle"]
    /\ callno = [c \in Callers |-> 0]
    /\ cmd = [c \in Callers |-> ""]
    /\ conn = [c \in Callers |-> 0]
    /\ output = [c \in Callers |-> ""]
    /\ ret = [c \in Callers |-> NoRet]
    /\ conns = <<>>
    /\ ncalls = 0
    /\ dec = [op |-> "none"]

\* ------------------------------------------------------------ querySocket

\* net.Dial: a connection of the call's own, on which the daemon will send s.
NewConn(cs, n, s) ==
    Append(cs, [state |-> "open", call |-> n, stream |-> s, rd |-> 0, wr |-> ""])

\* reader.ReadString('\n') delivers the next line of the stream, delimiter included.
NextLine(cn) == cn.stream[cn.rd + 1] \o "\n"

\* No deadline is set and the daemon keeps the connection open: a read never
\* fails, it waits.
ReadBlocks(cn) == {}

\* Why a read fails: the deadline expired, or the stream ended.
ReadErrors(cn) ==
    {"i/o timeout"} \cup (IF cn.rd = Len(cn.stream) THEN {"EOF"} ELSE {})

\* A greeting checked too loosely: any success code passes.
GreetingAnySuccess(greeting) == HasPrefix(greeting, "000")

\* strings.HasPrefix(greeting, "0001")
GreetingOK(greeting) == HasPrefix(greeting, "0001")

\* Only the completion code ends the reply.
IsFinalOnly0000(code) == code = "0000"

\* code[0] == '0'
IsFinal(code) == Ch(code, 1) = "0"

\* code[0] == '8' || code[0] == '9'
IsError(code) == Ch(code, 1) \in {"8", "9"}

\* the first four characters are digits
IsNumeric(code) == \A i \in 1..Len(code) : IsDigit(Ch(code, i))

\* The text of a coded line is dropped.
PayloadDropped(line) == ""

\* line[5:] and a newline, when the code is followed by a separator and text
Payload(line) ==
    IF Len(line) > 5 /\ Ch(line, 5) \in {" ", "-"}
    THEN SubSeq(line, 6, Len(line)) \o "\n"
    ELSE ""

\* One pass of the read loop over a line (its newline already removed): what is
\* written to the builder and how the loop goes on.
HandleLine(line) ==
    IF Len(line) > 0 /\ Ch(line, 1) = " "
    THEN [write |-> Tail(line) \o "\n", ctl |-> "continue"]
    ELSE IF Len(line) >= 4
    THEN LET code == SubSeq(line, 1, 4)
         IN  IF IsNumeric(code)
             THEN IF IsFinal(code)
                  THEN [write |-> Payload(line), ctl |-> "break"]
                  ELSE IF IsError(code)
                  THEN [write |-> "", ctl |-> "error"]
                  ELSE [write |-> Payload(line), ctl |-> "continue"]
             ELSE [write |-> line \o "\n", ctl |-> "continue"]
    ELSE IF Len(line) > 0
    THEN [write |-> line \o "\n", ctl |-> "continue"]
    ELSE [write |-> "", ctl |-> "continue"]

\* The connection is left open.
CloseConnLeak(cs, k) == cs

\* defer conn.Close()
CloseConn(cs, k) == [cs EXCEPT ![k].state = "closed"]

\* What is buffered is returned as if the reply were complete.
ReadFailedPartial(out, e) == [text |-> TrimSpace(out), err |-> ""]

\* return "", fmt.Errorf("failed to read response: %w", err)
ReadFailed(out, e) == [text |-> "", err |-> "failed to read response: " \o e]

\* The error is returned beside what was buffered.
DaemonErrorKeepsText(out, line) ==
    [text |-> TrimSpace(out), err |-> "BIRD error: " \o line]

\* return "", fmt.Errorf("BIRD error: %s", line)
DaemonError(out, line) == [text |-> "", err |-> "BIRD error: " \o line]

\* The builder's text is returned as it is.
SuccessUntrimmed(out) == [text |-> out, err |-> ""]

\* return strings.TrimSpace(output.String()), nil
Success(out) == [text |-> TrimSpace(out), err |-> ""]

\* c's call returns r.
Finish(c, r) ==
    /\ ret' = [ret EXCEPT ![c] = r]
    /\ pc' = [pc EXCEPT ![c] = "done"]

\* Caller c calls querySocket: net.Dial fails, or yields a new connection.
Dial(c, streams, commands, limit) ==
    /\ pc[c] = "idle"
    /\ ncalls < limit
    /\ ncalls' = ncalls + 1
    /\ callno' = [callno EXCEPT ![c] = ncalls + 1]
    /\ output' = [output EXCEPT ![c] = ""]
    /\ \E k \in commands : cmd' = [cmd EXCEPT ![c] = k]
    /\ UNCHANGED dec
    /\ \/ /\ Finish(c, [text |-> "", err |-> "failed to connect to socket"])
          /\ UNCHANGED <<conn, conns>>
       \/ \E s \in streams :
             /\ conns' = NewConn(conns, ncalls + 1, s)
             /\ conn' = [conn EXCEPT ![c] = Len(conns) + 1]
             /\ pc' = [pc EXCEPT ![c] = "greeting"]
             /\ UNCHANGED ret

\* Read the greeting and check it.
ReadGreeting(c) ==
    /\ pc[c] = "greeting"
    /\ LET k == conn[c]
           cn == conns[k]
       IN  \/ \E e \in ReadErrors(cn) :
                 /\ Finish(c, [text |-> "", err |-> "failed to read greeting: " \o e])
                 /\ conns' = CloseConn(conns, k)
           \/ /\ cn.rd < Len(cn.stream)
              /\ LET greeting == NextLine(cn)
                     read == [conns EXCEPT ![k].rd = cn.rd + 1]
                 IN  IF ~GreetingOK(greeting)
                     THEN /\ Finish(c, [text |-> "", err |-> "unexpected greeting: " \o greeting])
                          /\ conns' = CloseConn(read, k)
                     ELSE /\ pc' = [pc EXCEPT ![c] = "send"]
                          /\ conns' = read
                          /\ UNCHANGED ret
    /\ UNCHANGED <<callno, cmd, conn, output, ncalls, dec>>

\* Send the command, CRLF-terminated.
SendCommand(c) ==
    /\ pc[c] = "send"
    /\ LET k == conn[c]
       IN  \/ /\ Finish(c, [text |-> "", err |-> "failed to send command: i/o timeout"])
              /\ conns' = CloseConn(conns, k)
           \/ /\ conns' = [conns EXCEPT ![k].wr = @ \o cmd[c] \o "\r\n"]
              /\ pc' = [pc EXCEPT ![c] = "read"]
              /\ UNCHANGED ret
    /\ UNCHANGED <<callno, cmd, conn, output, ncalls, dec>>

\* One iteration of the read loop.
ReadLine(c) ==
    /\ pc[c] = "read"
    /\ LET k == conn[c]
           cn == conns[k]
       IN  \/ \E e \in ReadErrors(cn) :
                 /\ Finish(c, ReadFailed(output[c], e))
                 /\ conns' = CloseConn(conns, k)
                 /\ UNCHANGED output
           \/ /\ cn.rd < Len(cn.stream)
              /\ LET line == TrimRightNewline(NextLine(cn))
                     h == HandleLine(line)
                     read == [conns EXCEPT ![k].rd = cn.rd + 1]
                     out == output[c] \o h.write
                 IN  /\ output' = [output EXCEPT ![c] = out]
                     /\ CASE h.ctl = "continue" ->
                                /\ conns' = read
                                /\ UNCHANGED <<pc, ret>>
                          [] h.ctl = "break" ->
                                /\ Finish(c, Success(out))
                                /\ conns' = CloseConn(read, k)
                          [] h.ctl = "error" ->
                                /\ Finish(c, DaemonError(out, line))
                                /\ conns' = CloseConn(read, k)
    /\ UNCHANGED <<callno, cmd, conn, ncalls, dec>>

\* The caller has the result and is free to call again.
Return(c) ==
    /\ pc[c] = "done"
    /\ pc' = [pc EXCEPT ![c] = "idle"]
    /\ cmd' = [cmd EXCEPT ![c] = ""]
    /\ conn' = [conn EXCEPT ![c] = 0]
    /\ output' = [output EXCEPT ![c] = ""]
    /\ ret' = [ret EXCEPT ![c] = NoRet]
    /\ UNCHANGED <<callno, conns, ncalls, dec>>

\* One call of querySocket, against every stream of the bounds.
Next ==
    \/ Dial(1, Streams, Commands, 1)
    \/ ReadGreeting(1)
    \/ SendCommand(1)
    \/ ReadLine(1)
    \/ Return(1)

Spec == Init /\ [][Next]_vars

\* Callers whose calls interleave, and follow one another.
NextConc ==
    \E c \in Callers :
        \/ Dial(c, ConcStreams, {"show status"}, MaxCalls)
        \/ ReadGreeting(c)
        \/ SendCommand(c)
        \/ ReadLine(c)
        \/ Return(c)

SpecConc == Init /\ [][NextConc]_vars

\* Response lines of every kind the read loop writes, or does not write, to the
\* builder.
FrameLines ==
    { " cd",            \* continuation line
      " 0000",          \* continuation line that holds a code
      "1007-ab",        \* coded line: separator and text
      "1007-",          \* coded line: separator, no text
      "1007",           \* code alone
      "2002x",          \* code and no separator
      "8.8.8.0/24",     \* uncoded: digit first, but not four digits
      "ef",             \* short line
      "",               \* empty line
      "0000 ok",        \* terminal, separator and text
      "0000 ",          \* terminal as BIRD ends a reply
      "0013",           \* terminal, code alone
      "8001 no" }       \* runtime error

FrameStreams == {<<"0001 BIRD 2.0.8 ready.">> \o r : r \in SeqsUpTo(FrameLines, MaxFrameLines)}

\* One call of querySocket, against every reply of up to MaxFrameLines lines.
NextFrame ==
    \/ Dial(1, FrameStreams, {"show status"}, 1)
    \/ ReadGreeting(1)
    \/ SendCommand(1)
    \/ ReadLine(1)
    \/ Return(1)

SpecFrame == Init /\ [][NextFrame]_vars

\* Response lines for the calls whose return is in question: lines that add
\* to the builder, lines that add nothing, and the lines that end the loop.
LiveLines == {"1007-ab", " cd", "1007", "", "0000 ", "8001 no"}

\* The daemon goes on without end: it sends once more the line the call has
\* just read. (Of the endless replies only those are kept whose repeated line
\* adds nothing to the builder, so that the call stays in the state it was in.)
DaemonRepeats(c) ==
    /\ pc[c] = "read"
    /\ LET k == conn[c]
           cn == conns[k]
       IN  /\ cn.rd > 1
           /\ cn.rd = Len(cn.stream)
           /\ HandleLine(cn.stream[cn.rd]).write = ""
           /\ conns' = [conns EXCEPT ![k].rd = cn.rd - 1]
    /\ UNCHANGED <<pc, callno, cmd, conn, output, ret, ncalls, dec>>

\* conn.SetDeadline(time.Now().Add(10 * time.Second)): the deadline passes, and
\* the read or write the call is in fails with a timeout.
DeadlineExpires(c) ==
    /\ ReadGreeting(c) \/ SendCommand(c) \/ ReadLine(c)
    /\ pc'[c] = "done"
    /\ Contains(ret'[c].err, "i/o timeout")

\* One call of querySocket, against a daemon that may answer without end.
NextLive ==
    \/ Dial(1, {<<g>> \o r : g \in GreetingSet, r \in SeqsUpTo(LiveLines, MaxLines)},
            Commands, 1)
    \/ ReadGreeting(1)
    \/ SendCommand(1)
    \/ ReadLine(1)
    \/ Return(1)
    \/ DaemonRepeats(1)

\* The call's goroutine is scheduled again and again, so each of its steps is
\* taken once it can be; and time passes, so the deadline expires.
SpecLive ==
    /\ Init
    /\ [][NextLive]_vars
    /\ WF_vars(ReadGreeting(1))
    /\ WF_vars(SendCommand(1))
    /\ WF_vars(ReadLine(1))
    /\ WF_vars(DeadlineExpires(1))

\* ------------------------------------------------ the session's properties

\* A line that is no continuation line, whose first four characters are digits,
\* the first of them in ds.
CodedLine(line, ds) ==
    /\ Len(line) >= 4
    /\ \A i \in 1..4 : Ch(line, i) \in Digits
    /\ Ch(line, 1) \in ds

\* The callers whose call, not yet handed back, is the one on connection k.
Owners(k) == {c \in Callers : conn[c] = k}

\* C1: the command is written only after a first line beginning with "0001"
\* has been read; after a first line with any other prefix the call has returned
\* an "unexpected greeting" error with no text, the command was never written and
\* no further line was read.
C1_CommandAfterGreeting ==
    \A k \in DOMAIN conns :
        LET cn == conns[k]
        IN  /\ cn.wr # "" => cn.rd >= 1 /\ HasPrefix(cn.stream[1], "0001")
            /\ (cn.rd >= 1 /\ ~HasPrefix(cn.stream[1], "0001")) =>
                  /\ cn.wr = ""
                  /\ cn.rd = 1
                  /\ \A c \in Owners(k) :
                        /\ pc[c] = "done"
                        /\ ret[c].text = ""
                        /\ ret[c].err = "unexpected greeting: " \o cn.stream[1] \o "\n"

\* A call refused a greeting that carries a success code other than 0001, with
\* response lines waiting behind it.
C1_Witness ==
    \E c \in Callers :
        /\ pc[c] = "done"
        /\ conn[c] # 0
        /\ conns[conn[c]].stream[1] = "0002 busy"
        /\ Len(conns[conn[c]].stream) > 1
        /\ HasPrefix(ret[c].err, "unexpected greeting")

\* C2: a '0'-coded line read after the greeting is the last line read: the call
\* has returned success at it, and no line behind it in the stream is read.
C2_StopsAtFirstZeroCode ==
    \A k \in DOMAIN conns :
        LET cn == conns[k]
        IN  \A i \in 2..cn.rd :
                CodedLine(cn.stream[i], {"0"}) =>
                    /\ i = cn.rd
                    /\ cn.state = "closed"
                    /\ \A c \in Owners(k) : pc[c] = "done" /\ ret[c].err = ""

\* A call ended in success at a later "0001 ..." line with a line still unread.
C2_Witness ==
    \E c \in Callers :
        /\ pc[c] = "done"
        /\ conn[c] # 0
        /\ LET cn == conns[conn[c]]
           IN  /\ cn.rd >= 2
               /\ cn.stream[cn.rd] = "0001 hi"
               /\ Len(cn.stream) > cn.rd
               /\ ret[c].err = ""

\* The calls that read the whole of the response r behind a good greeting.
ReadAll(c, r) ==
    /\ pc[c] = "done"
    /\ conn[c] # 0
    /\ conns[conn[c]].stream = <<"0001 BIRD 2.0.8 ready.">> \o r
    /\ conns[conn[c]].rd = 1 + Len(r)

\* C3 as stated: the response "0000 ok" returns the empty payload and no error.
C3_EmptyPayload ==
    \A c \in Callers : ReadAll(c, <<"0000 ok">>) => ret[c] = [text |-> "", err |-> ""]

\* C3, amended: the response "0000 ok" ends the call at once with the payload
\* "ok" and no error; the payload is empty when no text follows the separator.
C3_PayloadOfFinalLine ==
    \A c \in Callers :
        /\ ReadAll(c, <<"0000 ok">>) => ret[c] = [text |-> "ok", err |-> ""]
        /\ ReadAll(c, <<"0000 ">>) => ret[c] = [text |-> "", err |-> ""]
        /\ (pc[c] = "read" /\ conns[conn[c]].rd >= 2) =>
              conns[conn[c]].stream[2] \notin {"0000 ok", "0000 "}

\* A call has read the response "0000 ok" and returned.
C3_Witness == \E c \in Callers : ReadAll(c, <<"0000 ok">>)

\* C4: an '8'- or '9'-coded line read after the greeting is the last line read:
\* the call has returned an error carrying that line, with no text, whatever was
\* buffered before it.
C4_DaemonErrorDiscardsPayload ==
    \A k \in DOMAIN conns :
        LET cn == conns[k]
        IN  \A i \in 2..cn.rd :
                CodedLine(cn.stream[i], {"8", "9"}) =>
                    /\ i = cn.rd
                    /\ cn.state = "closed"
                    /\ \A c \in Owners(k) :
                          /\ pc[c] = "done"
                          /\ ret[c] = [text |-> "", err |-> "BIRD error: " \o cn.stream[i]]

\* A call read a parse error behind a line whose payload it had buffered.
C4_Witness ==
    \E c \in Callers :
        /\ pc[c] = "done"
        /\ output[c] # ""
        /\ ret[c].err = "BIRD error: 9001 bad"

\* The last line read on connection cn is behind the greeting and final.
EndedAtFinalLine(cn) ==
    cn.rd >= 2 /\ CodedLine(cn.stream[cn.rd], {"0", "8", "9"})

\* C5: a call that has sent its command and returned without having read a
\* final line returns a "failed to read response" error and no text, whatever
\* it had buffered; a success is returned only at a '0'-coded line.
C5_ReadFailureReturnsNoText ==
    \A c \in Callers :
        (pc[c] = "done" /\ conn[c] # 0) =>
            LET cn == conns[conn[c]]
            IN  /\ (cn.wr # "" /\ ~EndedAtFinalLine(cn)) =>
                      /\ ret[c].text = ""
                      /\ \E e \in {"EOF", "i/o timeout"} :
                            ret[c].err = "failed to read response: " \o e
                /\ ret[c].err = "" =>
                      cn.rd >= 2 /\ CodedLine(cn.stream[cn.rd], {"0"})

\* A read failed at the end of the stream with payload already buffered.
C5_Witness ==
    \E c \in Callers :
        /\ pc[c] = "done"
        /\ output[c] # ""
        /\ ret[c].err = "failed to read response: EOF"

\* The part of querySocket in which the call holds its connection.
InExchange(c) == pc[c] \in {"greeting", "send", "read"}

\* C6: a call that connected has exactly one connection, dialled by itself; it
\* is open during the exchange and closed once the call has returned, whatever
\* the outcome; no two calls have a connection in common, and no connection
\* stays open without a call in its exchange.
C6_OwnConnectionClosedOnReturn ==
    /\ \A c \in Callers :
          /\ InExchange(c) =>
                /\ conn[c] \in DOMAIN conns
                /\ conns[conn[c]].state = "open"
                /\ conns[conn[c]].call = callno[c]
          /\ (pc[c] = "done" /\ conn[c] # 0) =>
                /\ conns[conn[c]].state = "closed"
                /\ conns[conn[c]].call = callno[c]
          /\ (pc[c] = "done" /\ conn[c] = 0) =>
                /\ ret[c].err = "failed to connect to socket"
                /\ \A k \in DOMAIN conns : conns[k].call # callno[c]
    /\ \A c, d \in Callers : (c # d /\ conn[c] # 0) => conn[c] # conn[d]
    /\ \A j, k \in DOMAIN conns : j # k => conns[j].call # conns[k].call
    /\ \A k \in DOMAIN conns :
          conns[k].state = "open" => \E c \in Callers : InExchange(c) /\ conn[c] = k
    /\ Len(conns) <= ncalls

\* One caller's call has returned with its connection closed while another
\* caller's call, on a connection of its own, is in the middle of its exchange.
C6_Witness ==
    \E c, d \in Callers :
        /\ c # d
        /\ pc[c] = "done" /\ conn[c] # 0
        /\ pc[d] = "read" /\ conn[d] # 0
        /\ conns[conn[c]].state = "closed"
        /\ conns[conn[d]].state = "open"

\* --------------------------------------------------------------- decoders

\* The width of the counters and numbers of the results.
Uint32Max == "4294967295"

\* x++ on a uint32 that counts lines: far below the width, so it never wraps.
Inc32(n) == n + 1

DigitVal(c) == CHOOSE n \in 0..9 : Ch("0123456789", n + 1) = c

RECURSIVE StripZeros(_)
StripZeros(s) == IF Len(s) > 1 /\ Ch(s, 1) = "0" THEN StripZeros(Tail(s)) ELSE s

\* a <= b for decimal numerals without leading zeros
RECURSIVE NumeralLE(_, _)
NumeralLE(a, b) ==
    IF Len(a) # Len(b) THEN Len(a) < Len(b)
    ELSE IF Len(a) = 0 THEN TRUE
    ELSE IF Ch(a, 1) # Ch(b, 1) THEN DigitVal(Ch(a, 1)) < DigitVal(Ch(b, 1))
    ELSE NumeralLE(Tail(a), Tail(b))

\* The value of a decimal numeral.
RECURSIVE DecValue(_)
DecValue(s) ==
    IF Len(s) = 0 THEN 0
    ELSE 10 * DecValue(SubSeq(s, 1, Len(s) - 1)) + DigitVal(Ch(s, Len(s)))

\* stringToUint32: 0 for the empty string and for whatever strconv.ParseUint(s, 10, 32)
\* refuses (a character that is no digit, a value above 2^32-1).
stringToUint32(str) ==
    LET s == TrimSpace(str)
    IN  IF s = "" THEN 0
        ELSE IF \E i \in 1..Len(s) : ~IsDigit(Ch(s, i)) THEN 0
        ELSE IF ~NumeralLE(StripZeros(s), Uint32Max) THEN 0
        ELSE DecValue(StripZeros(s))

\* What b.query hands a decoder: a text querySocket returned (trimmed), or an error.
QueryFailures == {"BIRD error: 8001 no", "failed to read response: EOF"}

Outputs(lines, n) == {TrimSpace(JoinLines(ls)) : ls \in SeqsUpTo(lines, n)}

Query(texts) ==
    {[text |-> t, err |-> ""] : t \in texts}
        \cup {[text |-> "", err |-> e] : e \in QueryFailures}

\* The literal w stands in s at index i.
Lit(s, i, w) == i + Len(w) - 1 <= Len(s) /\ SubSeq(s, i, i + Len(w) - 1) = w

\* ---- GetBGPTotal

TotalLines ==
    { "1007-20 of 21 routes for 10 networks in table master4",
      "47 of 48 routes for 23 networks in table master6",
      "Total: 67 of 69 routes for 33 networks in 2 tables",
      "5 of 6 routes for 4 networks in table master4",
      "0 of 0 routes for 0 networks in table master6",
      "no routes for 9 networks in table master4",
      "BIRD 2.0.8 ready." }

NoMatch == [ok |-> FALSE]

\* (\d+)\s+of\s+\d+\s+routes\s+for\s+(\d+)\s+networks, matched at index i
TotalsMatchAt(line, i) ==
    LET a == SkipDigits(line, i)
        b == ScanSpace(line, a, TRUE)
        c == ScanSpace(line, b + 2, TRUE)
        d == SkipDigits(line, c)
        e == ScanSpace(line, d, TRUE)
        f == ScanSpace(line, e + 6, TRUE)
        g == ScanSpace(line, f + 3, TRUE)
        h == SkipDigits(line, g)
        k == ScanSpace(line, h, TRUE)
    IN  IF /\ a > i
           /\ b > a /\ Lit(line, b, "of")
           /\ c > b + 2
           /\ d > c
           /\ e > d /\ Lit(line, e, "routes")
           /\ f > e + 6 /\ Lit(line, f, "for")
           /\ g > f + 3
           /\ h > g
           /\ k > h /\ Lit(line, k, "networks")
        THEN [ok |-> TRUE, m1 |-> SubSeq(line, i, a - 1), m2 |-> SubSeq(line, g, h - 1)]
        ELSE NoMatch

\* re.FindStringSubmatch(line): the leftmost match
RECURSIVE TotalsFind(_, _)
TotalsFind(line, i) ==
    IF i > Len(line) THEN NoMatch
    ELSE IF TotalsMatchAt(line, i).ok THEN TotalsMatchAt(line, i)
    ELSE TotalsFind(line, i + 1)

ZeroTotals == [V4Rib |-> 0, V4Fib |-> 0, V6Rib |-> 0, V6Fib |-> 0]

\* The second capture is taken to be the routes' total.
TotalsLineSwapped(t, line) ==
    LET matches == TotalsFind(line, 1)
    IN  IF ~matches.ok THEN t
        ELSE IF Contains(line, "master4")
        THEN [t EXCEPT !.V4Rib = stringToUint32(matches.m2),
                       !.V4Fib = stringToUint32(matches.m1)]
        ELSE IF Contains(line, "master6")
        THEN [t EXCEPT !.V6Rib = stringToUint32(matches.m2),
                       !.V6Fib = stringToUint32(matches.m1)]
        ELSE t

\* The body of GetBGPTotal's loop over the lines.
TotalsLine(t, line) ==
    LET matches == TotalsFind(line, 1)
    IN  IF ~matches.ok THEN t
        ELSE IF Contains(line, "master4")
        THEN [t EXCEPT !.V4Rib = stringToUint32(matches.m1),
                       !.V4Fib = stringToUint32(matches.m2)]
        ELSE IF Contains(line, "master6")
        THEN [t EXCEPT !.V6Rib = stringToUint32(matches.m1),
                       !.V6Fib = stringToUint32(matches.m2)]
        ELSE t

RECURSIVE TotalsLoop(_, _)
TotalsLoop(t, lines) ==
    IF Len(lines) = 0 THEN t
    ELSE TotalsLoop(TotalsLine(t, Head(lines)), Tail(lines))

GetBGPTotal ==
    /\ dec.op = "none"
    /\ \E r \in Query(Outputs(TotalLines, MaxTotalLines)) :
          dec' = IF r.err # ""
                 THEN [op |-> "GetBGPTotal", outs |-> <<>>, res |-> ZeroTotals, err |-> r.err]
                 ELSE [op |-> "GetBGPTotal", outs |-> <<r.text>>,
                       res |-> TotalsLoop(ZeroTotals, SplitLines(r.text)), err |-> ""]
    /\ UNCHANGED sock

\* ---- GetPeers

PeerLines ==
    { "name proto table state since info",
      "bgp1_v4 BGP master4 up 10:00:00 Established",
      "bgp2_v4 BGP master4 start 10:00:00 Connect",
      "bgp3_v6 BGP master6 up 10:00:00 Established",
      "bgp4_v6 BGP master6 start 10:00:00 Active Socket: refused",
      "bgp5_v4 BGP master4 down 10:00:00",
      "kernel1_v6 Kernel master6 up 10:00:00 Established",
      "  BGP state:          Established" }

ZeroPeers == [V4c |-> 0, V4e |-> 0, V6c |-> 0, V6e |-> 0]

\* Established sessions are counted before the family is looked at.
PeersLineEstablishedFirst(p, line) ==
    LET fields == Fields(line)
    IN  IF Len(fields) < 6 THEN p
        ELSE IF fields[6] = "Established"
        THEN [p EXCEPT !.V4e = Inc32(@), !.V6e = Inc32(@)]
        ELSE p

\* The body of GetPeers's loop over the lines.
PeersLine(p, line) ==
    LET fields == Fields(line)
    IN  IF Len(fields) < 6 THEN p
        ELSE LET protocolName == fields[1]
                 status == fields[6]
             IN  IF ~Contains(protocolName, "_v4") /\ ~Contains(protocolName, "_v6")
                 THEN p
                 ELSE IF Contains(line, "device1") \/ Contains(line, "kernel1")
                 THEN p
                 ELSE IF Contains(protocolName, "_v4")
                 THEN [p EXCEPT !.V4c = Inc32(@),
                                !.V4e = IF status = "Established" THEN Inc32(@) ELSE @]
                 ELSE IF Contains(protocolName, "_v6")
                 THEN [p EXCEPT !.V6c = Inc32(@),
                                !.V6e = IF status = "Established" THEN Inc32(@) ELSE @]
                 ELSE p

RECURSIVE PeersLoop(_, _)
PeersLoop(p, lines) ==
    IF Len(lines) = 0 THEN p
    ELSE PeersLoop(PeersLine(p, Head(lines)), Tail(lines))

GetPeers ==
    /\ dec.op = "none"
    /\ \E r \in Query(Outputs(PeerLines, MaxPeerLines)) :
          dec' = IF r.err # ""
                 THEN [op |-> "GetPeers", outs |-> <<>>, res |-> ZeroPeers, err |-> r.err]
                 ELSE [op |-> "GetPeers", outs |-> <<r.text>>,
                       res |-> PeersLoop(ZeroPeers, SplitLines(r.text)), err |-> ""]
    /\ UNCHANGED sock

\* ---- GetTotalSourceASNs

RouteLines ==
    { "Table master4:",
      "1.0.0.0/24 unreachable [bgp1 from 10.0.0.1] * (100) [AS13335i]",
      "8.8.8.0/24 via 10.0.0.1 [AS15169i]",
      "8.8.4.0/24 via 10.0.0.2 [AS15169e]",
      "2001:db8::/32 via fe80::1 [AS64496?]" }

\* \[AS(\d+)[ie]?\], matched at index i
SourceASNMatchAt(line, i) ==
    LET a == i + 3
        b == SkipDigits(line, a)
    IN  IF /\ Lit(line, i, "[AS")
           /\ b > a
           /\ \/ Ch(line, b) = "]"
              \/ Ch(line, b) \in {"i", "e"} /\ Ch(line, b + 1) = "]"
        THEN [ok |-> TRUE, m1 |-> SubSeq(line, a, b - 1)]
        ELSE NoMatch

\* re.FindStringSubmatch(line): the leftmost match
RECURSIVE SourceASNFind(_, _)
SourceASNFind(line, i) ==
    IF i > Len(line) THEN NoMatch
    ELSE IF SourceASNMatchAt(line, i).ok THEN SourceASNMatchAt(line, i)
    ELSE SourceASNFind(line, i + 1)

\* The first captures of the lines that match, in line order.
RECURSIVE SourceASNCaptures(_)
SourceASNCaptures(lines) ==
    IF Len(lines) = 0 THEN <<>>
    ELSE LET matches == SourceASNFind(Head(lines), 1)
         IN  (IF matches.ok THEN <<matches.m1>> ELSE <<>>)
                 \o SourceASNCaptures(Tail(lines))

\* The slices a range over the keys of a map may build: every order of the keys.
KeysInAnyOrder(keys) ==
    {f \in [1..Cardinality(keys) -> keys] : Range(f) = keys}

\* Every capture is kept, one per line.
extractSourceASNsKeepsDuplicates(out) == {SourceASNCaptures(SplitLines(out))}

\* extractSourceASNs: the keys of asnMap, in the order the map yields them.
extractSourceASNs(out) == KeysInAnyOrder(Range(SourceASNCaptures(SplitLines(out))))

\* stringSliceToSet: the keys of the set map, in the order the map yields them.
stringSliceToSet(slice) == KeysInAnyOrder(Range(slice))

\* stringSliceDifference: the elements of first that are not in second
RECURSIVE stringSliceDifference(_, _)
stringSliceDifference(first, second) ==
    IF Len(first) = 0 THEN <<>>
    ELSE (IF Head(first) \notin Range(second) THEN <<Head(first)>> ELSE <<>>)
             \o stringSliceDifference(Tail(first), second)

\* stringSliceIntersection: the elements of first that are in second
RECURSIVE stringSliceIntersection(_, _)
stringSliceIntersection(first, second) ==
    IF Len(first) = 0 THEN <<>>
    ELSE (IF Head(first) \in Range(second) THEN <<Head(first)>> ELSE <<>>)
             \o stringSliceIntersection(Tail(first), second)

ZeroASNs == [As4 |-> 0, As6 |-> 0, As10 |-> 0, As4Only |-> 0, As6Only |-> 0, AsBoth |-> 0]

\* The counts GetTotalSourceASNs returns for the slices of the two families.
SourceASNCounts(as4Set, as6Set, as10Set) ==
    [As4 |-> Len(as4Set),
     As6 |-> Len(as6Set),
     As10 |-> Len(as10Set),
     As4Only |-> Len(stringSliceDifference(as4Set, as6Set)),
     As6Only |-> Len(stringSliceDifference(as6Set, as4Set)),
     AsBoth |-> Len(stringSliceIntersection(as4Set, as6Set))]

GetTotalSourceASNs ==
    /\ dec.op = "none"
    /\ \E r4 \in Query(Outputs(RouteLines, MaxRouteLines)) :
          IF r4.err # ""
          THEN dec' = [op |-> "GetTotalSourceASNs", outs |-> <<>>,
                       res |-> ZeroASNs, err |-> r4.err]
          ELSE LET slices4 == extractSourceASNs(r4.text)
               IN  \E r6 \in Query(Outputs(RouteLines, MaxRouteLines)) :
                      IF r6.err # ""
                      THEN dec' = [op |-> "GetTotalSourceASNs", outs |-> <<r4.text>>,
                                   res |-> ZeroASNs, err |-> r6.err]
                      ELSE \E as4Set \in slices4, as6Set \in extractSourceASNs(r6.text) :
                              \E as10Set \in stringSliceToSet(as4Set \o as6Set) :
                                  dec' = [op |-> "GetTotalSourceASNs",
                                          outs |-> <<r4.text, r6.text>>,
                                          res |-> SourceASNCounts(as4Set, as6Set, as10Set),
                                          err |-> ""]
    /\ UNCHANGED sock

\* One call of one decoder, on every output of the bounds.
NextDecode ==
    \/ GetBGPTotal
    \/ GetPeers
    \/ GetTotalSourceASNs

SpecDecode == Init /\ [][NextDecode]_vars

\* ------------------------------------------------ the decoders' properties

Decoded(op) == dec.op = op /\ dec.err = ""

\* C7: the counts of GetTotalSourceASNs satisfy As4Only + AsBoth = As4,
\* As6Only + AsBoth = As6 and As10 = As4Only + As6Only + AsBoth, for every pair
\* of outputs, also when an ASN stands on several lines of one output.
C7_SourceASNIdentities ==
    Decoded("GetTotalSourceASNs") =>
        /\ dec.res.As4Only + dec.res.AsBoth = dec.res.As4
        /\ dec.res.As6Only + dec.res.AsBoth = dec.res.As6
        /\ dec.res.As10 = dec.res.As4Only + dec.res.As6Only + dec.res.AsBoth

\* The IPv4 output names AS15169 on two lines and an ASN the IPv6 output lacks;
\* the IPv6 output names AS15169 too.
C7_Witness ==
    /\ Decoded("GetTotalSourceASNs")
    /\ Contains(dec.outs[1], "[AS15169i]")
    /\ Contains(dec.outs[1], "[AS15169e]")
    /\ Contains(dec.outs[2], "[AS15169i]")
    /\ Contains(dec.outs[2], "[AS13335i]")
    /\ dec.res.AsBoth = 1
    /\ dec.res.As6Only = 1

\* C8: the counts of GetPeers satisfy V4e <= V4c and V6e <= V6c, for every
\* output of "show protocols".
C8_EstablishedAtMostConfigured ==
    dec.op = "GetPeers" =>
        /\ dec.res.V4e <= dec.res.V4c
        /\ dec.res.V6e <= dec.res.V6c

\* An output with an established and a connecting IPv4 peer and an established
\* IPv6 peer.
C8_Witness ==
    /\ Decoded("GetPeers")
    /\ dec.res.V4c = 2
    /\ dec.res.V4e = 1
    /\ dec.res.V6e = 1

\* The first token of the line contains the family's mark.
NamesFamily(line, mark) ==
    Len(Fields(line)) >= 1 /\ Contains(Fields(line)[1], mark)

\* The line names a system protocol.
SystemLine(line) == Contains(line, "device1") \/ Contains(line, "kernel1")

\* The line's status token is "Established".
StatusEstablished(line) ==
    Len(Fields(line)) >= 6 /\ Fields(line)[6] = "Established"

\* The number of lines of a text of which P holds.
CountLines(text, P(_)) ==
    LET lines == SplitLines(text)
    IN  Cardinality({i \in DOMAIN lines : P(lines[i])})

\* C9 as stated: every line whose first token contains "_v4" or "_v6" and that
\* names no system protocol adds one to its family's configured count whatever
\* its state, and one to the established count exactly when its status token is
\* "Established"; no other line changes a count.
C9_EveryNamedLineCounts ==
    Decoded("GetPeers") =>
        LET Conf4(l) == NamesFamily(l, "_v4") /\ ~SystemLine(l)
            Conf6(l) == NamesFamily(l, "_v6") /\ ~SystemLine(l)
            Est4(l) == Conf4(l) /\ StatusEstablished(l)
            Est6(l) == Conf6(l) /\ StatusEstablished(l)
        IN  /\ dec.res.V4c = CountLines(dec.outs[1], Conf4)
            /\ dec.res.V4e = CountLines(dec.outs[1], Est4)
            /\ dec.res.V6c = CountLines(dec.outs[1], Conf6)
            /\ dec.res.V6e = CountLines(dec.outs[1], Est6)

\* The longest run of digits that ends the token.
RECURSIVE TrailingDigits(_)
TrailingDigits(tok) ==
    IF Len(tok) > 0 /\ IsDigit(Ch(tok, Len(tok)))
    THEN TrailingDigits(SubSeq(tok, 1, Len(tok) - 1)) \o Ch(tok, Len(tok))
    ELSE ""

AllDigits(tok) == Len(tok) > 0 /\ \A i \in 1..Len(tok) : IsDigit(Ch(tok, i))

\* The tokens from the j-th on read "<N> of <N> routes for <N> networks".
ShapeAt(toks, j) ==
    /\ j + 6 <= Len(toks)
    /\ TrailingDigits(toks[j]) # ""
    /\ toks[j + 1] = "of"
    /\ AllDigits(toks[j + 2])
    /\ toks[j + 3] = "routes"
    /\ toks[j + 4] = "for"
    /\ AllDigits(toks[j + 5])
    /\ HasPrefix(toks[j + 6], "networks")

\* Where the shape first stands among the tokens of the line, 0 if nowhere.
ShapeIndex(line) ==
    LET toks == Fields(line)
        at == {j \in DOMAIN toks : ShapeAt(toks, j)}
    IN  IF at = {} THEN 0 ELSE CHOOSE j \in at : \A k \in at : j <= k

FirstNumber(line) == DecValue(TrailingDigits(Fields(line)[ShapeIndex(line)]))

ThirdNumber(line) == DecValue(Fields(line)[ShapeIndex(line) + 5])

RECURSIVE SplitOn(_, _)
SplitOn(s, c) ==
    LET k == IndexFrom(s, c, 1)
    IN  IF k = 0 THEN <<s>>
        ELSE <<SubSeq(s, 1, k - 1)>> \o SplitOn(SubSeq(s, k + 1, Len(s)), c)

\* strings.Index(s, sub): from 1, 0 if sub does not occur.
Index(s, sub) ==
    LET at == {i \in 1..(Len(s) - Len(sub) + 1) : SubSeq(s, i, i + Len(sub) - 1) = sub}
    IN  IF at = {} THEN 0 ELSE CHOOSE i \in at : \A k \in at : i <= k

\* 2^n
RECURSIVE Pow2(_)
Pow2(n) == IF n = 0 THEN 1 ELSE 2 * Pow2(n - 1)

HexDigits == "0123456789abcdef"

UpperHex == "0123456789ABCDEF"

IsHex(c) == Len(c) = 1 /\ (Contains(HexDigits, c) \/ Contains(UpperHex, c))

HexDigitVal(c) ==
    IF Contains(HexDigits, c) THEN Index(HexDigits, c) - 1 ELSE Index(UpperHex, c) - 1

RECURSIVE HexValue(_)
HexValue(s) ==
    IF Len(s) = 0 THEN 0
    ELSE 16 * HexValue(SubSeq(s, 1, Len(s) - 1)) + HexDigitVal(Ch(s, Len(s)))

NoNet == [ok |-> FALSE]

\* A field of a dotted quad: one to three digits, no leading zero, at most 255.
IsOctet(f) ==
    /\ Len(f) \in 1..3
    /\ \A i \in 1..Len(f) : IsDigit(Ch(f, i))
    /\ Len(f) > 1 => Ch(f, 1) # "0"
    /\ DecValue(f) <= 255

\* A group of an IPv6 address: one to four hexadecimal digits.
IsGroup(g) == Len(g) \in 1..4 /\ \A i \in 1..Len(g) : IsHex(Ch(g, i))

\* The groups of a text of groups joined by colons; none for the empty text.
Groups(s) == IF s = "" THEN <<>> ELSE SplitOn(s, ":")

\* The address a text denotes, as its bytes (IPv4) or its 16-bit groups (IPv6).
\* No zone and no dotted quad inside an IPv6 address: the daemon prints neither.
ParseAddr(s) ==
    IF IndexFrom(s, ":", 1) = 0
    THEN LET f == SplitOn(s, ".")
         IN  IF Len(f) = 4 /\ \A i \in 1..4 : IsOctet(f[i])
             THEN [ok |-> TRUE, ip |-> [i \in 1..4 |-> DecValue(f[i])]]
             ELSE NoNet
    ELSE LET e == Index(s, "::")
         IN  IF e = 0
             THEN LET g == SplitOn(s, ":")
                  IN  IF Len(g) = 8 /\ \A i \in 1..8 : IsGroup(g[i])
                      THEN [ok |-> TRUE, ip |-> [i \in 1..8 |-> HexValue(g[i])]]
                      ELSE NoNet
             ELSE LET l == Groups(SubSeq(s, 1, e - 1))
                      r == Groups(SubSeq(s, e + 2, Len(s)))
                      z == 8 - Len(l) - Len(r)
                  IN  IF /\ z >= 1
                         /\ \A i \in 1..Len(l) : IsGroup(l[i])
                         /\ \A i \in 1..Len(r) : IsGroup(r[i])
                      THEN [ok |-> TRUE,
                            ip |-> [i \in 1..8 |->
                                      IF i <= Len(l) THEN HexValue(l[i])
                                      ELSE IF i <= Len(l) + z THEN 0
                                      ELSE HexValue(r[i - Len(l) - z])]]
                      ELSE NoNet

\* The part of unit k (of w bits each) that a mask of n bits keeps.
MaskUnit(v, k, w, n) ==
    LET keep == IF n >= k * w THEN w ELSE IF n <= (k - 1) * w THEN 0 ELSE n - (k - 1) * w
    IN  v - (v % Pow2(w - keep))

\* net.ParseCIDR(s): the network of "address/bits", the address masked to bits.
ParseCIDR(s) ==
    LET i == IndexFrom(s, "/", 1)
        addr == ParseAddr(SubSeq(s, 1, i - 1))
        mask == SubSeq(s, i + 1, Len(s))
        w == IF Len(addr.ip) = 4 THEN 8 ELSE 16
    IN  IF i = 0 THEN NoNet
        ELSE IF ~addr.ok THEN NoNet
        ELSE IF mask = "" \/ \E j \in 1..Len(mask) : ~IsDigit(Ch(mask, j)) THEN NoNet
        ELSE IF Len(StripZeros(mask)) > 3 \/ DecValue(StripZeros(mask)) > w * Len(addr.ip)
        THEN NoNet
        ELSE LET n == DecValue(StripZeros(mask))
             IN  [ok |-> TRUE,
                  ip |-> [k \in DOMAIN addr.ip |-> MaskUnit(addr.ip[k], k, w, n)],
                  bits |-> n]

\* ------------------------------------------------- one decoder, step by step

\* strconv.FormatUint(n, 10), as %d prints an ASN
RECURSIVE FormatUint(_)
FormatUint(n) ==
    IF n < 10 THEN Ch("0123456789", n + 1)
    ELSE FormatUint(n \div 10) \o Ch("0123456789", (n % 10) + 1)

\* A decoder has been called with arg; its locals hold res, no query is made yet.
Begin(op, arg, res) ==
    [op |-> op, arg |-> arg, step |-> 0, cmds |-> <<>>, outs |-> <<>>,
     res |-> res, found |-> FALSE, err |-> "", done |-> FALSE]

\* b.query(command) came back with r: one more query is behind the decoder.
Asked(d, command, r) ==
    [d EXCEPT !.step = @ + 1,
              !.cmds = Append(@, command),
              !.outs = IF r.err = "" THEN Append(@, r.text) ELSE @]

\* The decoder returns.
Returns(d, res, found, err) ==
    [d EXCEPT !.res = res, !.found = found, !.err = err, !.done = TRUE]

\* ---- GetRoute

\* What "show route primary for <ip>" prints, line by line.
RouteForLines ==
    { "Table master4:",
      "8.8.8.0/24 unreachable [BGP3v4 2025-11-19 from 192.110.255.57] * (100) [AS15169i]",
      "\tType: BGP univ",
      "Network not in table",
      "10.1.2.3/8 via 10.0.0.1",
      "2001:db8::/32 via fe80::1",
      "300.1.1.0/24 via x",
      "a/b c" }

IPs == {"8.8.8.8", "2001:db8::1"}

GetRouteCommand(ip) == "show route primary for " \o ip

\* The last line that holds a prefix answers.
RouteHitLast(hits) == CHOOSE i \in hits : \A k \in hits : k <= i

\* The loop returns at the first line that holds a prefix.
RouteHit(hits) == CHOOSE i \in hits : \A k \in hits : i <= k

GetRoute(d, r) ==
    LET a == Asked(d, GetRouteCommand(d.arg), r)
        lines == SplitLines(r.text)
        hits == {i \in DOMAIN lines :
                    LET fields == Fields(lines[i])
                    IN  /\ Len(fields) > 0
                        /\ Contains(fields[1], "/")
                        /\ ParseCIDR(fields[1]).ok}
    IN  IF r.err # "" THEN Returns(a, NoNet, FALSE, r.err)
        ELSE IF r.text = "" THEN Returns(a, NoNet, FALSE, "")
        ELSE IF hits # {}
        THEN Returns(a, ParseCIDR(Fields(lines[RouteHit(hits)])[1]), TRUE, "")
        ELSE Returns(a, NoNet, FALSE, "")

\* ---- GetMasks

\* What "show route primary table master4" prints, line by line.
MaskLines4 ==
    { "Table master4:",
      "1.0.0.0/24 via 192.0.2.1",
      "2.0.0.0/24 unicast [bgp1 10:00:00] * (100) [AS13335i]",
      "3.0.0.0/16 via 192.0.2.1" }

\* What "show route primary table master6" prints, line by line.
MaskLines6 ==
    { "2001:db8::/32 via fe80::1",
      "2001:db8:1::/48 via fe80::1",
      "\tvia fe80::1 on eth0" }

MasksCommands ==
    << "show route primary table master4", "show route primary table master6" >>

\* make(map[string]uint32)
EmptyMap == [k \in {} |-> 0]

\* m[k]++
MapInc(m, k) ==
    IF k \in DOMAIN m THEN [m EXCEPT ![k] = Inc32(@)] ELSE m @@ (k :> 1)

\* The line is counted under the address in front of the slash.
MasksLineByAddress(m, line) ==
    LET fields == Fields(line)
    IN  IF Len(fields) > 0 /\ Contains(fields[1], "/")
        THEN LET parts == SplitOn(fields[1], "/")
             IN  IF Len(parts) = 2 THEN MapInc(m, parts[1]) ELSE m
        ELSE m

\* One pass of either loop of GetMasks.
MasksLine(m, line) ==
    LET fields == Fields(line)
    IN  IF Len(fields) > 0 /\ Contains(fields[1], "/")
        THEN LET parts == SplitOn(fields[1], "/")
             IN  IF Len(parts) = 2 THEN MapInc(m, parts[2]) ELSE m
        ELSE m

RECURSIVE MasksLoop(_, _)
MasksLoop(m, lines) ==
    IF Len(lines) = 0 THEN m
    ELSE MasksLoop(MasksLine(m, lines[1]), Tail(lines))

\* d.res holds the locals v4 and v6.
GetMasks(d, r) ==
    LET a == Asked(d, MasksCommands[d.step + 1], r)
        res == [d.res EXCEPT ![d.step + 1] = MasksLoop(@, SplitLines(r.text))]
    IN  IF r.err # "" THEN Returns(a, <<>>, FALSE, r.err)
        ELSE IF d.step = 0 THEN [a EXCEPT !.res = res]
        ELSE Returns(a, res, FALSE, "")

\* ---- decodeASPaths, GetASPathFromIP

\* The tokens path texts are made of: ASNs, a block, and the two halves of a block.
PathTokens == {"3356", "174", "{1212}", "{1212", "3434}"}

RECURSIVE JoinSpaces(_)
JoinSpaces(toks) ==
    IF Len(toks) = 0 THEN ""
    ELSE IF Len(toks) = 1 THEN toks[1]
    ELSE toks[1] \o " " \o JoinSpaces(Tail(toks))

PathTexts == {JoinSpaces(toks) : toks \in SeqsUpTo(PathTokens, MaxPathTokens)}

ASPathLabel == "BGP.as_path:"

\* What "show route primary all for <ip>" prints: a route with its attributes,
\* or no route.
ASPathOutputs ==
    {"8.8.8.0/24 unicast [bgp1 10:00:00] * (100) [AS15169i]\n\tBGP.as_path: " \o t
        : t \in PathTexts}
        \cup {"", "Network not in table", "8.8.8.0/24 unicast [static1 10:00:00] * (200)"}

GetASPathCommand(ip) == "show route primary all for " \o ip

\* strings.ContainsAny(s, "{}")
HasBrace(s) == Contains(s, "{") \/ Contains(s, "}")

\* strings.Replace(s, old, new, 1): the first occurrence only
ReplaceFirst(s, old, new) ==
    LET i == Index(s, old)
    IN  IF i = 0 THEN s
        ELSE SubSeq(s, 1, i - 1) \o new \o SubSeq(s, i + Len(old), Len(s))

\* The braces are left where they stand.
SpaceBracesNot(in) == in

\* The first opening and the first closing brace are set apart from the ASNs.
SpaceBraces(in) ==
    IF HasBrace(in)
    THEN ReplaceFirst(ReplaceFirst(in, "{", "{ "), "}", " }")
    ELSE in

\* The loop over the tokens: a token with a brace switches to the set for good.
RECURSIVE ASPathLoop(_, _, _, _)
ASPathLoop(paths, isSet, path, set) ==
    IF Len(paths) = 0 THEN [Path |-> path, Set |-> set]
    ELSE LET as == paths[1]
         IN  IF HasBrace(as) THEN ASPathLoop(Tail(paths), TRUE, path, set)
             ELSE IF ~isSet
             THEN ASPathLoop(Tail(paths), isSet, Append(path, stringToUint32(as)), set)
             ELSE ASPathLoop(Tail(paths), isSet, path, Append(set, stringToUint32(as)))

decodeASPaths(in) == ASPathLoop(Fields(SpaceBraces(in)), FALSE, <<>>, <<>>)

\* var aspath ASPath
ZeroASPath == [Path |-> <<>>, Set |-> <<>>]

\* strings.SplitN(line, label, 2)[1]: what stands behind the first label
AfterLabel(line, label) == SubSeq(line, Index(line, label) + Len(label), Len(line))

GetASPathFromIP(d, r) ==
    LET a == Asked(d, GetASPathCommand(d.arg), r)
        lines == SplitLines(r.text)
        hits == {i \in DOMAIN lines : Contains(lines[i], ASPathLabel)}
        first == CHOOSE i \in hits : \A k \in hits : i <= k
    IN  IF r.err # "" THEN Returns(a, ZeroASPath, FALSE, r.err)
        ELSE IF r.text = "" \/ ~Contains(r.text, ASPathLabel)
        THEN Returns(a, ZeroASPath, FALSE, "")
        ELSE Returns(a, decodeASPaths(TrimSpace(AfterLabel(lines[first], ASPathLabel))),
                     TRUE, "")

\* ---- GetROA

RUnknown == 0

RValid == 1

RInvalid == 2

\* prefix.String() of the prefixes asked about
Prefixes == {"192.0.2.0/24", "2001:db8::/32"}

ASNArgs == {64496}

\* What "eval roa_check(...)" prints (trimmed, as querySocket returns it).
ROACheckOutputs ==
    { "(enum 35)0", "(enum 35)1", "(enum 35)2", "(enum 35)3",
      "", "void", "12", "runtime error\n(enum 35)1", "1\n(enum 35)x" }

GetROACommand(prefix, asn) ==
    LET table == IF Contains(prefix, ":") THEN "roa_v6" ELSE "roa_v4"
    IN  "eval roa_check(" \o table \o ", " \o prefix \o ", " \o FormatUint(asn) \o ")"

NoStatus == [ok |-> FALSE]

\* Valid and Invalid change places.
ROAStatusSwapped(val) ==
    CASE val = "0" -> [ok |-> TRUE, status |-> RUnknown]
      [] val = "1" -> [ok |-> TRUE, status |-> RInvalid]
      [] val = "2" -> [ok |-> TRUE, status |-> RValid]
      [] OTHER -> NoStatus

\* status, ok := statuses[val]
ROAStatus(val) ==
    CASE val = "0" -> [ok |-> TRUE, status |-> RUnknown]
      [] val = "1" -> [ok |-> TRUE, status |-> RValid]
      [] val = "2" -> [ok |-> TRUE, status |-> RInvalid]
      [] OTHER -> NoStatus

GetROA(d, r) ==
    LET a == Asked(d, GetROACommand(d.arg.prefix, d.arg.asn), r)
        out == r.text
        s == ROAStatus(Ch(out, Len(out)))
    IN  IF r.err # "" THEN Returns(a, 0, FALSE, r.err)
        ELSE IF Len(out) > 0 /\ s.ok THEN Returns(a, s.status, TRUE, "")
        ELSE Returns(a, 0, FALSE, "")

\* ---- GetROAs

ROACommands ==
    << "show route primary table master4 where roa_check(roa_v4) = ROA_VALID count",
       "show route primary table master4 where roa_check(roa_v4) = ROA_INVALID count",
       "show route primary table master4 where roa_check(roa_v4) = ROA_UNKNOWN count",
       "show route primary table master6 where roa_check(roa_v6) = ROA_VALID count",
       "show route primary table master6 where roa_check(roa_v6) = ROA_INVALID count",
       "show route primary table master6 where roa_check(roa_v6) = ROA_UNKNOWN count" >>

\* The field of Roas the n-th query fills.
ROAFields == <<"V4v", "V4i", "V4u", "V6v", "V6i", "V6u">>

\* var r Roas
ZeroRoas == [V4v |-> 0, V4i |-> 0, V4u |-> 0, V6v |-> 0, V6i |-> 0, V6u |-> 0]

extractRouteCount(out) ==
    LET fields == Fields(out)
    IN  IF Len(fields) > 0 THEN stringToUint32(fields[1]) ELSE 0

\* A failed query is taken for an empty output and the next query is made.
GetROAsGoesOn(d, r) ==
    LET a == Asked(d, ROACommands[d.step + 1], r)
        res == [d.res EXCEPT ![ROAFields[d.step + 1]] = extractRouteCount(r.text)]
    IN  IF d.step + 1 < Len(ROACommands) THEN [a EXCEPT !.res = res]
        ELSE Returns(a, res, FALSE, r.err)

\* d.res holds r; on an error r is returned as far as it is filled.
GetROAs(d, r) ==
    LET a == Asked(d, ROACommands[d.step + 1], r)
        res == [d.res EXCEPT ![ROAFields[d.step + 1]] = extractRouteCount(r.text)]
    IN  IF r.err # "" THEN Returns(a, d.res, FALSE, r.err)
        ELSE IF d.step + 1 < Len(ROACommands) THEN [a EXCEPT !.res = res]
        ELSE Returns(a, res, FALSE, "")

\* ---- GetInvalids

\* What "show route primary table master4 where roa_check(roa_v4) = ROA_INVALID"
\* prints, line by line.
InvalidLines4 ==
    { "Table master4:",
      "192.0.2.0/24 via 10.0.0.1 [AS64496i]",
      "198.51.100.0/24 unicast [bgp1 10:00:00] * (100) [AS64496i]",
      "203.0.113.0/24 unreachable [static] * (100)",
      "10.0.0.0/8 blackhole [static]" }

\* What its master6 twin prints, line by line.
InvalidLines6 ==
    { "Table master6:",
      "2001:db8::/32 via fe80::1 [AS64497i]",
      "2001:db8:1::/48 via fe80::1 [AS64496i]" }

InvalidCommands ==
    << "show route primary table master4 where roa_check(roa_v4) = ROA_INVALID",
       "show route primary table master6 where roa_check(roa_v6) = ROA_INVALID" >>

\* numRe.FindString(s) for [\d]+: the leftmost run of digits, as long as it goes.
FindDigits(s) ==
    LET at == {i \in 1..Len(s) : IsDigit(Ch(s, i))}
        i == CHOOSE j \in at : \A k \in at : j <= k
    IN  IF at = {} THEN "" ELSE SubSeq(s, i, SkipDigits(s, i) - 1)

NoInvalid == [prefix |-> "", asn |-> ""]

parseInvalidLine(line) ==
    LET fields == Fields(line)
        idx == Index(line, "[")
    IN  IF Len(fields) < 2 THEN NoInvalid
        ELSE IF idx = 0 THEN NoInvalid
        ELSE [prefix |-> fields[1], asn |-> FindDigits(SubSeq(line, idx, Len(line)))]

\* inv[asn] = append(inv[asn], prefix)
MapAppend(m, k, v) ==
    IF k \in DOMAIN m THEN [m EXCEPT ![k] = Append(@, v)] ELSE m @@ (k :> <<v>>)

InvalidsLine(inv, line) ==
    LET p == parseInvalidLine(line)
    IN  IF p.asn # "" THEN MapAppend(inv, p.asn, p.prefix) ELSE inv

RECURSIVE InvalidsLoop(_, _)
InvalidsLoop(inv, lines) ==
    IF Len(lines) = 0 THEN inv
    ELSE InvalidsLoop(InvalidsLine(inv, lines[1]), Tail(lines))

\* d.res holds inv; on an error inv is returned as it stands.
GetInvalids(d, r) ==
    LET a == Asked(d, InvalidCommands[d.step + 1], r)
        inv == InvalidsLoop(d.res, SplitLines(r.text))
    IN  IF r.err # "" THEN Returns(a, d.res, FALSE, r.err)
        ELSE IF d.step = 0 THEN [a EXCEPT !.res = inv]
        ELSE Returns(a, inv, FALSE, "")

\* ---- GetLargeCommunities

LargeCommands ==
    << "show route primary table master4 where bgp_large_community ~ [(*,*,*)]",
       "show route primary table master6 where bgp_large_community ~ [(*,*,*)]" >>

\* var l Large
ZeroLarge == [V4 |-> 0, V6 |-> 0]

countRouteLines(out) ==
    LET lines == SplitLines(TrimSpace(out))
    IN  IF out = "" THEN 0
        ELSE Cardinality({i \in DOMAIN lines :
                            Len(lines[i]) > 0 /\ (IsDigit(Ch(lines[i], 1)) \/ Ch(lines[i], 1) = ":")})

\* d.res holds l; on an error l is returned as far as it is filled.
GetLargeCommunities(d, r) ==
    LET a == Asked(d, LargeCommands[d.step + 1], r)
        l == IF d.step = 0 THEN [d.res EXCEPT !.V4 = countRouteLines(r.text)]
             ELSE [d.res EXCEPT !.V6 = countRouteLines(r.text)]
    IN  IF r.err # "" THEN Returns(a, d.res, FALSE, r.err)
        ELSE IF d.step = 0 THEN [a EXCEPT !.res = l]
        ELSE Returns(a, l, FALSE, "")

\* ---- GetVRPs

\* What "show route all table roa_v4 where net.asn=<asn>" prints, line by line.
VRPLines4 ==
    { "Table roa_v4:",
      "192.0.2.0/24-24 AS64496  [rpki1 10:00:00] * (100)",
      "198.51.100.7/24-32 AS64496",
      "192.0.2.0/33-24 AS64496",
      "192.0.2.0/24-x AS64496" }

\* What its roa_v6 twin prints, line by line.
VRPLines6 ==
    { "Table roa_v6:",
      "2001:db8::/32-48 AS64496",
      "2001:db8::/129-48 AS64496" }

VRPCommands(asn) ==
    << "show route all table roa_v4 where net.asn=" \o FormatUint(asn),
       "show route all table roa_v6 where net.asn=" \o FormatUint(asn) >>

\* strconv.Atoi(s) on numerals of up to nine digits: an optional sign, then digits.
Atoi(s) ==
    LET signed == Len(s) > 0 /\ Ch(s, 1) \in {"+", "-"}
        digits == IF signed THEN Tail(s) ELSE s
    IN  IF digits = "" \/ \E i \in 1..Len(digits) : ~IsDigit(Ch(digits, i))
        THEN [ok |-> FALSE, err |-> "strconv.Atoi: parsing \"" \o s \o "\": invalid syntax"]
        ELSE [ok |-> TRUE,
              val |-> IF Ch(s, 1) = "-" THEN 0 - DecValue(digits) ELSE DecValue(digits)]

\* A line whose prefix or length is malformed is passed over.
VRPsLineLenient(vrps, line) ==
    LET fields == Fields(line)
        parts == SplitOn(fields[1], "-")
        prefix == ParseCIDR(parts[1])
        max == Atoi(parts[2])
    IN  IF Len(fields) > 0 /\ Contains(fields[1], "-") /\ Len(parts) = 2 /\ prefix.ok /\ max.ok
        THEN [vrps |-> Append(vrps, [Prefix |-> prefix, Max |-> max.val]), err |-> ""]
        ELSE [vrps |-> vrps, err |-> ""]

\* One pass of the loop of parseVRPs: the slice after the line, or the error the
\* function returns with.
VRPsLine(vrps, line) ==
    LET fields == Fields(line)
        parts == SplitOn(fields[1], "-")
        prefix == ParseCIDR(parts[1])
        max == Atoi(parts[2])
    IN  IF Len(fields) > 0 /\ Contains(fields[1], "-") /\ Len(parts) = 2
        THEN IF ~prefix.ok
             THEN [vrps |-> <<>>, err |-> "invalid CIDR address: " \o parts[1]]
             ELSE IF ~max.ok THEN [vrps |-> <<>>, err |-> max.err]
             ELSE [vrps |-> Append(vrps, [Prefix |-> prefix, Max |-> max.val]), err |-> ""]
        ELSE [vrps |-> vrps, err |-> ""]

RECURSIVE VRPsLoop(_, _)
VRPsLoop(vrps, lines) ==
    IF Len(lines) = 0 THEN [vrps |-> vrps, err |-> ""]
    ELSE LET p == VRPsLine(vrps, lines[1])
         IN  IF p.err # "" THEN p ELSE VRPsLoop(p.vrps, Tail(lines))

parseVRPs(out) == VRPsLoop(<<>>, SplitLines(out))

\* d.res holds VRPs; a failed query returns VRPs as it stands, a parse error nil.
GetVRPs(d, r) ==
    LET a == Asked(d, VRPCommands(d.arg)[d.step + 1], r)
        p == IF r.text # "" THEN parseVRPs(r.text) ELSE [vrps |-> <<>>, err |-> ""]
        VRPs == d.res \o p.vrps
    IN  IF r.err # "" THEN Returns(a, d.res, FALSE, r.err)
        ELSE IF p.err # "" THEN Returns(a, <<>>, FALSE, p.err)
        ELSE IF d.step = 0 THEN [a EXCEPT !.res = VRPs]
        ELSE Returns(a, VRPs, FALSE, "")

\* ---- GetOriginFromIP

\* The tokens the path texts of an origin lookup are made of: ASNs, a block and
\* the two halves of a block, a confederation segment, and two numbers no ASN
\* can be: 2^32 + 1 and a number of twenty digits.
OriginTokens ==
    {"3356", "174", "{1212}", "{1212", "3434}", "(174)", "4294967297",
     "99999999999999999999"}

\* What "show route primary all for <ip>" hands the decoder: a route with its
\* attributes (the path attribute once, or twice), or no route.
OriginOutputs ==
    {TrimSpace("8.8.8.0/24 unicast [bgp1 10:00:00] * (100) [AS15169i]\n\tBGP.as_path: "
                   \o JoinSpaces(toks))
        : toks \in SeqsUpTo(OriginTokens, MaxPathTokens)}
        \cup {"", "Network not in table", "8.8.8.0/24 unicast [static1 10:00:00] * (200)",
              "8.8.8.0/24 unicast [bgp1 10:00:00] * (100)\n\tBGP.as_path: \n\tBGP.as_path: 3356"}

\* strconv.IntSize: the width of int in the build.
IntSizes == {32, 64}

\* regexp \{[^}]*\} ReplaceAllString(s, ""): every opening brace that has a
\* closing brace behind it goes, with everything up to the first such brace.
RECURSIVE RemoveBlocks(_)
RemoveBlocks(s) ==
    LET i == IndexFrom(s, "{", 1)
        j == IndexFrom(s, "}", i + 1)
    IN  IF i = 0 \/ j = 0 THEN s
        ELSE SubSeq(s, 1, i - 1) \o RemoveBlocks(SubSeq(s, j + 1, Len(s)))

\* The value of the numeral s modulo 2^32, kept in two halves of 16 bits:
\* hi * 65536 + lo is the value of the digits read so far.
RECURSIVE Wrap32(_, _, _)
Wrap32(s, hi, lo) ==
    IF Len(s) = 0 THEN hi * 65536 + lo
    ELSE LET l == lo * 10 + DigitVal(Ch(s, 1))
         IN  Wrap32(Tail(s), (hi * 10 + l \div 65536) % 65536, l % 65536)

\* source, err := strconv.Atoi(o); uint32(source): o is a run of digits, so the
\* only error is a value beyond the build's int (2^31-1 or 2^63-1), and the
\* conversion keeps the low 32 bits.
OriginOfDigits(o, intSize) ==
    IF ~NumeralLE(StripZeros(o),
                  IF intSize = 32 THEN "2147483647" ELSE "9223372036854775807")
    THEN [ok |-> FALSE, err |-> "strconv.Atoi: parsing \"" \o o \o "\": value out of range"]
    ELSE [ok |-> TRUE, val |-> Wrap32(o, 0, 0)]

\* The loop over the lines: the first attribute line whose last token, the
\* blocks removed, holds a digit decides; any other line is passed over.
RECURSIVE OriginLoop(_, _)
OriginLoop(lines, intSize) ==
    IF Len(lines) = 0 THEN [val |-> 0, found |-> FALSE, err |-> ""]
    ELSE LET line == lines[1]
             pathStr == RemoveBlocks(TrimSpace(AfterLabel(line, ASPathLabel)))
             fields == Fields(pathStr)
             o == FindDigits(fields[Len(fields)])
             source == OriginOfDigits(o, intSize)
         IN  IF Contains(line, ASPathLabel) /\ Len(fields) > 0 /\ o # ""
             THEN IF ~source.ok THEN [val |-> 0, found |-> TRUE, err |-> source.err]
                  ELSE [val |-> source.val, found |-> TRUE, err |-> ""]
             ELSE OriginLoop(Tail(lines), intSize)

\* d.arg holds the address and the int width of the build.
GetOriginFromIP(d, r) ==
    LET a == Asked(d, GetASPathCommand(d.arg.ip), r)
        o == OriginLoop(SplitLines(r.text), d.arg.intSize)
    IN  IF r.err # "" THEN Returns(a, 0, FALSE, r.err)
        ELSE IF r.text = "" THEN Returns(a, 0, FALSE, "")
        ELSE Returns(a, o.val, o.found, o.err)

\* ---- the decoders of one query or two, on every output of the bounds

\* The decoders a behaviour of SpecLookup may call.
LookupOps ==
    {"GetRoute", "GetMasks", "GetASPathFromIP", "GetOriginFromIP", "GetROA", "GetVRPs",
     "GetInvalids"}

\* The arguments a decoder is called with ("" for a decoder without arguments).
Args(op) ==
    CASE op \in {"GetRoute", "GetASPathFromIP"} -> IPs
      [] op = "GetOriginFromIP" -> {[ip |-> i, intSize |-> w] : i \in IPs, w \in IntSizes}
      [] op = "GetROA" -> {[prefix |-> p, asn |-> n] : p \in Prefixes, n \in ASNArgs}
      [] op = "GetVRPs" -> ASNArgs
      [] OTHER -> {""}

\* The locals of a decoder when it starts: what its var declarations and its
\* make calls give.
Locals(op) ==
    CASE op = "GetRoute" -> NoNet
      [] op = "GetMasks" -> <<EmptyMap, EmptyMap>>
      [] op = "GetASPathFromIP" -> ZeroASPath
      [] op = "GetOriginFromIP" -> 0
      [] op = "GetROA" -> 0
      [] op = "GetVRPs" -> <<>>
      [] op = "GetInvalids" -> EmptyMap
      [] op = "GetROAs" -> ZeroRoas
      [] op = "GetLargeCommunities" -> ZeroLarge

\* What the daemon may print in answer to the queries of each decoder.
RouteForOutputs == Outputs(RouteForLines, MaxLookupLines)

MaskOutputs == <<Outputs(MaskLines4, MaxLookupLines), Outputs(MaskLines6, MaxLookupLines)>>

VRPOutputs == <<Outputs(VRPLines4, MaxLookupLines), Outputs(VRPLines6, MaxLookupLines)>>

InvalidOutputs ==
    <<Outputs(InvalidLines4, MaxLookupLines), Outputs(InvalidLines6, MaxLookupLines)>>

\* What the daemon may print in answer to the decoder's next query.
LookupOutputs(d) ==
    CASE d.op = "GetRoute" -> RouteForOutputs
      [] d.op = "GetMasks" -> MaskOutputs[d.step + 1]
      [] d.op = "GetASPathFromIP" -> ASPathOutputs
      [] d.op = "GetOriginFromIP" -> OriginOutputs
      [] d.op = "GetROA" -> ROACheckOutputs
      [] d.op = "GetVRPs" -> VRPOutputs[d.step + 1]
      [] d.op = "GetInvalids" -> InvalidOutputs[d.step + 1]

\* The decoder takes the result of its query and runs to its next query or to
\* its return.
Advance(d, r) ==
    CASE d.op = "GetRoute" -> GetRoute(d, r)
      [] d.op = "GetMasks" -> GetMasks(d, r)
      [] d.op = "GetASPathFromIP" -> GetASPathFromIP(d, r)
      [] d.op = "GetOriginFromIP" -> GetOriginFromIP(d, r)
      [] d.op = "GetROA" -> GetROA(d, r)
      [] d.op = "GetVRPs" -> GetVRPs(d, r)
      [] d.op = "GetInvalids" -> GetInvalids(d, r)
      [] d.op = "GetROAs" -> GetROAs(d, r)
      [] d.op = "GetLargeCommunities" -> GetLargeCommunities(d, r)

\* A decoder is called.
Call(ops) ==
    /\ dec.op = "none"
    /\ \E op \in ops : \E arg \in Args(op) : dec' = Begin(op, arg, Locals(op))
    /\ UNCHANGED sock

\* The query of the decoder returns, with a text or with an error.
Answer ==
    /\ dec.op # "none"
    /\ ~dec.done
    /\ \E r \in Query(LookupOutputs(dec)) : dec' = Advance(dec, r)
    /\ UNCHANGED sock

NextLookup ==
    \/ Call(LookupOps)
    \/ Answer

SpecLookup == Init /\ [][NextLookup]_vars

\* ---- the decoders of several queries, each query an exchange with the daemon

SeqOps == {"GetROAs", "GetInvalids", "GetVRPs", "GetLargeCommunities", "GetMasks"}

\* The commands of a decoder, in the order of its code.
CommandsOf(d) ==
    CASE d.op = "GetROAs" -> ROACommands
      [] d.op = "GetInvalids" -> InvalidCommands
      [] d.op = "GetVRPs" -> VRPCommands(d.arg)
      [] d.op = "GetLargeCommunities" -> LargeCommands
      [] d.op = "GetMasks" -> MasksCommands

Ready == "0001 BIRD 2.0.8 ready."

\* What the daemon sends on a connection: a reply the decoder can use, a reply
\* it cannot parse (GetVRPs), an error, or nothing behind the greeting.
Scripts(op) ==
    (CASE op = "GetROAs" ->
            {<<Ready, "0014 3 of 3 routes for 3 networks in table master4">>}
       [] op = "GetVRPs" ->
            { <<Ready, "1007-192.0.2.0/24-24 AS64496", "0000 ">>,
              <<Ready, "1007-192.0.2.0/24-x AS64496", "0000 ">> }
       [] OTHER ->
            {<<Ready, "1007-192.0.2.0/24 via 10.0.0.1 [AS64496i]", "0000 ">>})
        \cup {<<Ready, "9001 syntax error">>, <<Ready>>}

\* The decoder calls b.query with its next command: querySocket starts.
Ask ==
    /\ dec.op \in SeqOps
    /\ ~dec.done
    /\ Dial(1, Scripts(dec.op), {CommandsOf(dec)[dec.step + 1]}, ncalls + 1)

\* querySocket has returned: the decoder goes on with what it got.
Resume ==
    /\ pc[1] = "done"
    /\ dec' = Advance(dec, ret[1])
    /\ pc' = [pc EXCEPT ![1] = "idle"]
    /\ cmd' = [cmd EXCEPT ![1] = ""]
    /\ conn' = [conn EXCEPT ![1] = 0]
    /\ output' = [output EXCEPT ![1] = ""]
    /\ ret' = [ret EXCEPT ![1] = NoRet]
    /\ UNCHANGED <<callno, conns, ncalls>>

NextSeq ==
    \/ Call(SeqOps)
    \/ Ask
    \/ ReadGreeting(1)
    \/ SendCommand(1)
    \/ ReadLine(1)
    \/ Resume

SpecSeq == Init /\ [][NextSeq]_vars

\* ------------------------------------------------- the lookups' properties

\* The decoder op has returned.
Returned(op) == dec.op = op /\ dec.done

\* The line's first token parses as a CIDR.
LeadsWithCIDR(line) == Fields(line) # <<>> /\ ParseCIDR(Fields(line)[1]).ok

\* C11: on every output, GetRoute returns found = true with the prefix of the
\* first line whose first token parses as a CIDR; when the output is empty or no
\* line has such a token it returns found = false and no prefix; the error is nil
\* in both cases.
C11_RouteOfFirstCIDRLine ==
    (Returned("GetRoute") /\ Len(dec.outs) = 1) =>
        LET lines == SplitLines(dec.outs[1])
            at == {i \in DOMAIN lines : LeadsWithCIDR(lines[i])}
            first == CHOOSE i \in at : \A k \in at : i <= k
        IN  /\ dec.err = ""
            /\ IF at = {}
               THEN ~dec.found /\ dec.res = NoNet
               ELSE dec.found /\ dec.res = ParseCIDR(Fields(lines[first])[1])

\* The output names the table on its first line and two prefixes behind it, the
\* first one with host bits set.
C11_Witness ==
    /\ Returned("GetRoute")
    /\ dec.found
    /\ dec.outs = <<"10.1.2.3/8 via 10.0.0.1\n2001:db8::/32 via fe80::1">>
    /\ dec.res = [ok |-> TRUE, ip |-> <<10, 0, 0, 0>>, bits |-> 8]

\* The decoder op has returned without an error.
Succeeded(op) == Returned(op) /\ dec.err = ""

\* The first token of the line, "" if it has none.
FirstToken(line) == IF Fields(line) = <<>> THEN "" ELSE Fields(line)[1]

\* What stands behind the slash of a token.
MaskLength(tok) == SubSeq(tok, Index(tok, "/") + 1, Len(tok))

PathText == TrimSpace(AfterLabel(dec.outs[1], ASPathLabel))

\* The values of the tokens of a text, in order.
ASNsOf(s) == [i \in DOMAIN Fields(s) |-> DecValue(Fields(s)[i])]

\* How often character c stands in s.
Count(s, c) == Cardinality({i \in 1..Len(s) : Ch(s, i) = c})

\* The text holds one opening and one closing brace, in this order.
SingleBlock(s) ==
    /\ Count(s, "{") = 1
    /\ Count(s, "}") = 1
    /\ Index(s, "{") < Index(s, "}")

\* What stands in front of the first opening brace, and between it and the first
\* closing brace.
BeforeBlock(s) == SubSeq(s, 1, Index(s, "{") - 1)

InsideBlock(s) == SubSeq(s, Index(s, "{") + 1, Index(s, "}") - 1)

\* C13 as stated: on a text without braces decodeASPaths returns the decimal
\* tokens in order as the path and an empty set; on a text with a single {...}
\* block it returns the tokens inside the block as the set and the tokens before
\* the block as the path, and nothing else in either.
C13_PathAndSetOfSingleBlock ==
    (Succeeded("GetASPathFromIP") /\ dec.found) =>
        /\ ~HasBrace(PathText) =>
              dec.res = [Path |-> ASNsOf(PathText), Set |-> <<>>]
        /\ SingleBlock(PathText) =>
              dec.res = [Path |-> ASNsOf(BeforeBlock(PathText)),
                         Set |-> ASNsOf(InsideBlock(PathText))]

\* C14 as stated: the set decodeASPaths returns is empty unless the text holds
\* exactly one block in braces: a text with no block, or with two or more
\* blocks, yields an empty set.
C14_SetOnlyOfOneBlock ==
    (Succeeded("GetASPathFromIP") /\ dec.found) =>
        (dec.res.Set # <<>> => SingleBlock(PathText))

\* The first brace of the text opens a block that is closed.
OpensBlock(s) == Index(s, "{") > 0 /\ Index(s, "{") < Index(s, "}")

\* The tokens of a text that hold no brace, in order.
Unbraced(s) == SelectSeq(Fields(s), LAMBDA tok : ~HasBrace(tok))

\* C14: the set decodeASPaths returns is empty when the text holds no brace; when
\* the first brace of the text opens a block, the set begins with the tokens of
\* that block, in order, whether one block stands in the text or several: a
\* text with two or more blocks does not yield an empty set.
C14_SetOfFirstBlock ==
    (Succeeded("GetASPathFromIP") /\ dec.found) =>
        /\ ~HasBrace(PathText) => dec.res.Set = <<>>
        /\ OpensBlock(PathText) =>
              LET inner == Unbraced(InsideBlock(PathText))
              IN  /\ Len(inner) <= Len(dec.res.Set)
                  /\ \A i \in DOMAIN inner : dec.res.Set[i] = DecValue(inner[i])

\* A path of two blocks: the set holds the ASN of the first.
C14_Witness ==
    /\ Succeeded("GetASPathFromIP")
    /\ dec.found
    /\ PathText = "{1212} {1212 3434}"
    /\ dec.res = [Path |-> <<>>, Set |-> <<1212>>]

\* C15: GetROA maps the last character of the response, "0", "1" or "2", to
\* Unknown, Valid or Invalid with found = true; for any other last character and
\* for an empty response it returns found = false and a nil error; the command
\* names the table roa_v6 exactly when the text of the prefix holds a colon, and
\* roa_v4 otherwise.
C15_StatusOfLastCharacter ==
    Returned("GetROA") =>
        LET v6 == \E i \in 1..Len(dec.arg.prefix) : Ch(dec.arg.prefix, i) = ":"
        IN  /\ Len(dec.cmds) = 1
            /\ HasPrefix(dec.cmds[1], "eval roa_check(roa_v6, ") <=> v6
            /\ HasPrefix(dec.cmds[1], "eval roa_check(roa_v4, ") <=> ~v6
            /\ Len(dec.outs) = 1 =>
                  LET last == Ch(dec.outs[1], Len(dec.outs[1]))
                  IN  /\ dec.err = ""
                      /\ last = "0" => dec.found /\ dec.res = RUnknown
                      /\ last = "1" => dec.found /\ dec.res = RValid
                      /\ last = "2" => dec.found /\ dec.res = RInvalid
                      /\ last \notin {"0", "1", "2"} => ~dec.found /\ dec.res = 0

\* An IPv6 prefix whose check ends in "2".
C15_Witness ==
    /\ Returned("GetROA")
    /\ dec.cmds = <<"eval roa_check(roa_v6, 2001:db8::/32, 64496)">>
    /\ dec.outs = <<"(enum 35)2">>
    /\ dec.found
    /\ dec.res = RInvalid

\* ------------------------------------- the properties of decoders of several queries

\* What a decoder of several queries returns when it has aggregated nothing.
NothingAggregated(op) ==
    CASE op = "GetROAs" -> [V4v |-> 0, V4i |-> 0, V4u |-> 0, V6v |-> 0, V6i |-> 0, V6u |-> 0]
      [] op = "GetLargeCommunities" -> [V4 |-> 0, V6 |-> 0]
      [] OTHER -> <<>>

\* C16 as stated: when a sub-query of a decoder of several queries fails, the
\* decoder returns that error, and the value beside it holds none of the results
\* of the sub-queries that succeeded before: it is the zero or empty value.
C16_NoPartialAggregation ==
    (dec.op \in SeqOps /\ dec.done /\ Len(dec.outs) < dec.step) =>
        /\ dec.err # ""
        /\ dec.res = NothingAggregated(dec.op)

\* What the commands of a decoder name, in the order they are to be issued.
Marks(op) ==
    CASE op = "GetROAs" ->
            << {"table master4 ", "(roa_v4) = ROA_VALID "},
               {"table master4 ", "(roa_v4) = ROA_INVALID "},
               {"table master4 ", "(roa_v4) = ROA_UNKNOWN "},
               {"table master6 ", "(roa_v6) = ROA_VALID "},
               {"table master6 ", "(roa_v6) = ROA_INVALID "},
               {"table master6 ", "(roa_v6) = ROA_UNKNOWN "} >>
      [] op = "GetVRPs" -> <<{"table roa_v4 "}, {"table roa_v6 "}>>
      [] OTHER -> <<{"table master4"}, {"table master6"}>>

\* A call of querySocket starts in this step.
StartsQuery == ncalls' # ncalls

\* C19: a decoder of several queries issues its commands strictly in the order
\* of its code (GetROAs: IPv4 valid, invalid, unknown, then IPv6 valid, invalid,
\* unknown), each at most once; it starts a sub-query only when the exchange of
\* the one before has completed, and starts none after the first error.
C19_QueriesInFixedOrder ==
    [][StartsQuery =>
          /\ ncalls' = ncalls + 1
          /\ dec.op \in SeqOps
          /\ ~dec.done
          /\ dec.err = ""
          /\ dec.step = ncalls
          /\ Len(dec.outs) = ncalls
          /\ \A k \in DOMAIN conns : conns[k].state = "closed"
          /\ ncalls' <= Len(Marks(dec.op))
          /\ \A m \in Marks(dec.op)[ncalls'] : Contains(cmd'[1], m)]_vars

\* GetROAs has sent its sixth command, on the sixth connection, after five
\* replies.
C19_Witness ==
    /\ dec.op = "GetROAs"
    /\ dec.step = 5
    /\ Len(conns) = 6
    /\ \A k \in 1..5 : conns[k].state = "closed"
    /\ conns[6].wr =
          "show route primary table master6 where roa_check(roa_v6) = ROA_UNKNOWN count\r\n"

\* ------------------------------------------------- GetVRPs and GetInvalids

\* The first tokens of the lines of a text that contain a hyphen, in line order.
HyphenTokens(text) ==
    LET lines == SplitLines(text)
        toks == [i \in DOMAIN lines |-> FirstToken(lines[i])]
    IN  SelectSeq(toks, LAMBDA tok : Contains(tok, "-"))

BeforeHyphen(tok) == SubSeq(tok, 1, Index(tok, "-") - 1)

AfterHyphen(tok) == SubSeq(tok, Index(tok, "-") + 1, Len(tok))

\* The prefix or the integer of the token is malformed.
Malformed(tok) == ~ParseCIDR(BeforeHyphen(tok)).ok \/ ~AllDigits(AfterHyphen(tok))

\* The VRPs of the tokens, in order.
VRPsOf(toks) ==
    [i \in DOMAIN toks |->
        [Prefix |-> ParseCIDR(BeforeHyphen(toks[i])), Max |-> DecValue(AfterHyphen(toks[i]))]]

FirstBracketed(line) ==
    LET i == Index(line, "[")
        j == IndexFrom(line, "]", i + 1)
    IN  IF i = 0 THEN "" ELSE SubSeq(line, i, IF j = 0 THEN Len(line) ELSE j)

\* C18 as stated: for each line of the outputs of GetInvalids the first token is
\* the prefix and the ASN key is the first decimal run inside the first bracketed
\* segment of the line (a line whose first bracketed segment holds no decimal run
\* adds nothing); the prefix is appended to the list of its key, IPv4 lines
\* before IPv6 lines, so that the listed prefixes are as many as the lines that
\* yielded an ASN.
C18_ASNInsideFirstBrackets ==
    Succeeded("GetInvalids") =>
        LET lines == SplitLines(dec.outs[1]) \o SplitLines(dec.outs[2])
            Key(line) == FindDigits(FirstBracketed(line))
            Under(k) == SelectSeq(lines, LAMBDA line : Key(line) = k)
        IN  /\ DOMAIN dec.res = {Key(lines[i]) : i \in DOMAIN lines} \ {""}
            /\ \A k \in DOMAIN dec.res :
                  dec.res[k] = [i \in DOMAIN Under(k) |-> FirstToken(Under(k)[i])]

\* ------------------------------------------------- the text of a reply

\* The lines the call of caller 1 has read behind the greeting, in order.
LinesRead == SubSeq(conns[conn[1]].stream, 2, conns[conn[1]].rd)

\* The first four characters of the line are digits.
Coded(line) == Len(line) >= 4 /\ \A i \in 1..4 : IsDigit(Ch(line, i))

RECURSIVE Concat(_)
Concat(texts) == IF Len(texts) = 0 THEN "" ELSE texts[1] \o Concat(Tail(texts))

\* The call of caller 1 has returned a text.
ReturnedText == pc[1] = "done" /\ ret[1].err = "" /\ conn[1] # 0

\* The payload C20 states for a line, newline-terminated.
StatedPayload(line) ==
    IF Ch(line, 1) = " " THEN Tail(line) \o "\n"
    ELSE IF Coded(line)
    THEN IF Ch(line, 5) \in {" ", "-"} THEN SubSeq(line, 6, Len(line)) \o "\n" ELSE ""
    ELSE line \o "\n"

\* C20 as stated: on success the text querySocket returns is, trimmed, the
\* concatenation of one newline-terminated payload per line read: a line that
\* begins with a space without that space; a coded line's remainder from index 5
\* when index 4 is a space or a hyphen, and nothing otherwise; every uncoded
\* line, the empty line included, verbatim.
C20_PayloadPerLine ==
    ReturnedText =>
        ret[1].text =
            TrimSpace(Concat([i \in DOMAIN LinesRead |-> StatedPayload(LinesRead[i])]))

\* What the line adds to the text: nothing, or a text that is not empty and a
\* newline.
WrittenPayload(line) ==
    LET text == IF Ch(line, 1) = " " THEN Tail(line)
                ELSE IF Coded(line)
                THEN IF Ch(line, 5) \in {" ", "-"} THEN SubSeq(line, 6, Len(line)) ELSE ""
                ELSE line
    IN  IF text = "" /\ Ch(line, 1) # " " THEN "" ELSE text \o "\n"

\* C20: on success the text querySocket returns is, trimmed, the concatenation
\* of the payloads of the lines read, in order: a line that begins with a space
\* gives the line without that space and a newline; a coded line gives its
\* remainder from index 5 and a newline when index 4 is a space or a hyphen and
\* the remainder is not empty, and nothing otherwise; an uncoded line that is
\* not empty gives the line and a newline; the empty line gives nothing.
C20_TextOfWrittenPayloads ==
    ReturnedText =>
        ret[1].text =
            TrimSpace(Concat([i \in DOMAIN LinesRead |-> WrittenPayload(LinesRead[i])]))

\* An empty line between a continuation line and the terminal line's text.
C20_Witness ==
    /\ ReturnedText
    /\ LinesRead = <<" cd", "", "0000 ok">>
    /\ ret[1].text = "cd\nok"

\* ---- the return of every call

\* No line read behind the greeting on cn ends the read loop.
NoFinalLineRead(cn) ==
    \A i \in 2..cn.rd : ~CodedLine(cn.stream[i], {"0", "8", "9"})

\* c's call has returned in one of the ways querySocket returns: an error on a
\* failed connect, a failed read of the greeting, a bad greeting, a failed
\* write, an '8' or '9' line, or a failed read of the response, each with no
\* text; success at a terminal '0' line and nowhere else.
ExitOfCall(c) ==
    IF conn[c] = 0
    THEN ret[c] = [text |-> "", err |-> "failed to connect to socket"]
    ELSE LET cn == conns[conn[c]]
             last == cn.stream[cn.rd]
             greeted == cn.rd >= 1 /\ HasPrefix(cn.stream[1], "0001")
         IN  \/ /\ cn.rd = 0
                /\ ret[c].text = ""
                /\ HasPrefix(ret[c].err, "failed to read greeting: ")
             \/ /\ cn.rd = 1 /\ ~greeted /\ cn.wr = ""
                /\ ret[c].text = ""
                /\ HasPrefix(ret[c].err, "unexpected greeting: ")
             \/ /\ cn.rd = 1 /\ greeted /\ cn.wr = ""
                /\ ret[c].text = ""
                /\ HasPrefix(ret[c].err, "failed to send command: ")
             \/ /\ greeted /\ cn.wr # "" /\ cn.rd >= 2
                /\ CodedLine(last, {"0"})
                /\ ret[c].err = ""
             \/ /\ greeted /\ cn.wr # "" /\ cn.rd >= 2
                /\ CodedLine(last, {"8", "9"})
                /\ ret[c] = [text |-> "", err |-> "BIRD error: " \o last]
             \/ /\ greeted /\ cn.wr # ""
                /\ NoFinalLineRead(cn)
                /\ ret[c].text = ""
                /\ HasPrefix(ret[c].err, "failed to read response: ")

\* The read loop is left at the first terminal or error line, and the call has
\* not returned while it is in the loop.
LoopGoesOn(c) ==
    /\ NoFinalLineRead(conns[conn[c]])
    /\ ret[c] = NoRet

\* C23: every call of querySocket that has connected returns (a call that
\* fails to connect returns at once); it has returned success only at a
\* terminal '0' line, and otherwise one of the errors of a failed connect, a
\* bad greeting, a failed write, an '8' or '9' line or a failed read; the read
\* loop goes on as long as no terminal or error line is read and no read fails.
C23_EveryCallReturns ==
    /\ \A c \in Callers : InExchange(c) ~> pc[c] = "done"
    /\ [](\A c \in Callers :
            /\ pc[c] = "done" => ExitOfCall(c)
            /\ pc[c] = "read" => LoopGoesOn(c))

\* A call has returned on the expired deadline from a reply whose last line,
\* one that adds nothing to the builder, the daemon could repeat without end.
C23_Witness ==
    \E c \in Callers :
        /\ pc[c] = "done"
        /\ conn[c] # 0
        /\ LET cn == conns[conn[c]]
           IN  /\ cn.rd = Len(cn.stream)
               /\ cn.rd >= 2
               /\ cn.stream[cn.rd] = "1007"
               /\ ret[c].err = "failed to read response: i/o timeout"

\* ---- the origin lookup

\* The decoder has returned and its query had come back with a text.
Answered(op) == Returned(op) /\ Len(dec.outs) = 1

\* The attribute lines of an output, in order.
PathLines(out) == SelectSeq(SplitLines(out), LAMBDA line : Contains(line, ASPathLabel))

\* The character at p stands in a block: at or behind an opening brace and
\* not behind the first closing brace that follows it.
InBlock(s, p) ==
    \E i \in 1..p :
        /\ Ch(s, i) = "{"
        /\ \E j \in p..Len(s) :
              /\ j > i
              /\ Ch(s, j) = "}"
              /\ \A k \in (i + 1)..(j - 1) : Ch(s, k) # "}"

\* The characters of s from p on that stand in no block.
RECURSIVE OutsideBlocks(_, _)
OutsideBlocks(s, p) ==
    IF p > Len(s) THEN ""
    ELSE (IF InBlock(s, p) THEN "" ELSE Ch(s, p)) \o OutsideBlocks(s, p + 1)

\* The tokens that remain of the path text of the first attribute line.
RemainingTokens(out) ==
    Fields(OutsideBlocks(TrimSpace(AfterLabel(PathLines(out)[1], ASPathLabel)), 1))

\* The digits a token begins with.
LeadingDigits(tok) == SubSeq(tok, 1, SkipDigits(tok, 1) - 1)

\* C21 as stated: on an output with an as-path attribute line GetOriginFromIP
\* reports found with no error, and the origin is the number the last token
\* outside the brace blocks begins with; it reports not found with no error
\* exactly when the output has no as-path attribute line.
C21_OriginOfLastToken ==
    Answered("GetOriginFromIP") =>
        LET out == dec.outs[1]
            toks == RemainingTokens(out)
            run == LeadingDigits(toks[Len(toks)])
        IN  /\ (~dec.found /\ dec.err = "") <=> PathLines(out) = <<>>
            /\ PathLines(out) # <<>> =>
                  /\ dec.found
                  /\ dec.err = ""
                  /\ (toks # <<>> /\ run # "") => FormatUint(dec.res) = StripZeros(run)

\* What GetASPathFromIP returns on the output GetOriginFromIP decoded.
PathOfSameOutput ==
    GetASPathFromIP(Begin("GetASPathFromIP", dec.arg.ip, ZeroASPath),
                    [text |-> dec.outs[1], err |-> ""])

\* C22 as stated: on the same output GetASPathFromIP and GetOriginFromIP report
\* the same found flag, and when both report found and the path is not empty
\* the origin is the last element of the path.
C22_OriginIsLastOfPath ==
    Answered("GetOriginFromIP") =>
        LET p == PathOfSameOutput
        IN  /\ p.found = dec.found
            /\ (p.found /\ dec.found /\ p.res.Path # <<>>) =>
                  dec.res = p.res.Path[Len(p.res.Path)]

\* ---- numbers beyond the width

\* The token is a decimal number of 0..2^32-1.
IsUint32(tok) ==
    /\ tok # ""
    /\ \A i \in 1..Len(tok) : IsDigit(Ch(tok, i))
    /\ NumeralLE(StripZeros(tok), Uint32Max)

\* Tokens where a number is expected: numbers within the width, numbers beyond
\* it, and tokens that are no decimal numbers.
NumberTokens ==
    {"0", "007", "65535", "4294967296", "4294967297", "99999999999999999999",
     "12x", "x", "-1", "+1", "1.5", "0x10"}

\* The count and path decoders give 0 for every token that is no number of the
\* width: stringToUint32 itself, extractRouteCount on a count line, decodeASPaths
\* on a path, and GetBGPTotal's loop on a totals line.
BadTokensDecodeAsZero ==
    \A tok \in NumberTokens :
        ~IsUint32(tok) =>
            /\ stringToUint32(tok) = 0
            /\ extractRouteCount(tok \o " of 5 routes for 2 networks in table master4") = 0
            /\ decodeASPaths("3356 " \o tok) = [Path |-> <<3356, 0>>, Set |-> <<>>]
            /\ (\A i \in 1..Len(tok) : IsDigit(Ch(tok, i))) =>
                  TotalsLine(ZeroTotals, tok \o " of 21 routes for 10 networks in table master4")
                      = [ZeroTotals EXCEPT !.V4Fib = 10]

\* C24 as stated: a token that is no decimal number of 0..2^32-1 is decoded as 0
\* by the count and path decoders, and no number beyond the width is ever
\* returned as its remainder modulo 2^32: the origin lookup, too, returns 0 for
\* a digit run beyond the width.
C24_OutOfRangeIsZero ==
    /\ BadTokensDecodeAsZero
    /\ Answered("GetOriginFromIP") =>
          LET toks == RemainingTokens(dec.outs[1])
              run == LeadingDigits(toks[Len(toks)])
          IN  (PathLines(dec.outs[1]) # <<>> /\ toks # <<>> /\ run # "" /\ ~IsUint32(run)) =>
                  dec.res = 0

====
